---- MODULE Spec2Model ----
(***************************************************************************)
(* People-counting backend: the reconciliation engine                      *)
(* (backend/services.py), the tasks that drive it (backend/main.py) and    *)
(* the per-device attach supervisor (backend/people_subscriber.py).        *)
(*                                                                         *)
(* Spec       the engine, one handler call at a time                       *)
(* SpecAsync  the engine under the asyncio tasks of main.py, each handler  *)
(*            cut at its awaits                                            *)
(* SpecPoll   one device whose counters never decrease, read by its attach *)
(*            stream and by camera_sync_loop                               *)
(* SpecSup    the reconnect loop of _run_source, one instance per device;  *)
(*            SpecSupFair adds that its sleep returns                      *)
(* SpecStream the supervisors with the blocks they receive, the handlers   *)
(*            they await and the shutdown of lifespan; SpecStreamFair adds *)
(*            the fairness of the event loop                               *)
(* SpecSink   the engine's calls under a persistence sink that may fail    *)
(* SpecStamp  an attach task and a request handler, with the totals the    *)
(*            recorded rows are stamped with                               *)
(* SpecWire   one attach response: its bytes, the multipart reader and the *)
(*            loop that consumes the blocks                                *)
(* SpecFetch  one call of fetch_camera_summary (backend/camera_sync.py)    *)
(* SpecConfig the persisted settings laid over the static defaults         *)
(*            (backend/admin_settings.py)                                  *)
(* SpecAdmin  the admin routes that write the persisted settings           *)
(*            (backend/admin_routes.py)                                    *)
(* SpecBlock  one text as a block of the attach stream and as the reply to *)
(*            getSummary                                                   *)
(* SpecCycle  the passes of camera_sync_loop (backend/main.py)             *)
(***************************************************************************)
EXTENDS Integers, Sequences, FiniteSets, TLC

VARIABLES
    channels,          \* PeopleCountingService._channels
    occupancy_offset,  \* PeopleCountingService.occupancy_offset
    applied,           \* history: the snapshot most recently applied per channel
    last,              \* history: what the most recent engine step did
    pc,                \* SpecAsync: where each task stands
    frame,             \* SpecAsync: the locals of each task's handler call
    running,           \* SpecAsync: the task the event loop is executing
    stamp,             \* SpecStamp: history, the totals around each task's rows
    device,            \* SpecPoll: the camera's own cumulative counters
    in_flight,         \* SpecPoll: summary results fetched and not yet applied
    recorded,          \* SpecPoll: sums of the deltas of the rows recorded
    highest,           \* SpecPoll: the highest totals applied so far
    sup_state,         \* SpecSup: CONNECTING / STREAMING / BACKOFF / STOPPED
    backoff,           \* SpecSup: _run_source's local backoff
    waited,            \* SpecSup: history, the delay of the latest sleep
    _stopped,          \* SpecSup: DahuaPeopleSubscriber._stopped
    fails,             \* SpecSup: history, sleeps since backoff was last set to 1
    came_from,         \* SpecSup: history, the state each supervisor was in before
    handling,          \* SpecStream: whether a supervisor is awaiting a handler
    outcome,           \* SpecStream: history, what became of the latest block
    lifespan,          \* SpecStream: serving / stopping / exited
    background,        \* SpecStream: the scheduler and camera_sync tasks
    result,            \* SpecSink: history, how the latest handler call ended
    stream,            \* SpecWire: the bytes the device sends on one connection
    delivery,          \* SpecWire: history, how the stream was framed and cut
    boundary,          \* SpecWire: _iter_multipart_blocks' boundary
    unread,            \* SpecWire: the bytes aiter_bytes has not delivered yet
    buffer,            \* SpecWire: _iter_multipart_blocks' buffer
    parts,             \* SpecWire: the parts of the current split not yet looked at
    yielded,           \* SpecWire: history, the bodies yielded so far
    consuming,         \* SpecWire: the block whose handler _run_source awaits
    calls,             \* SpecWire: history, the handler calls started and ended
    requests,          \* SpecFetch: history, the getSummary requests issued
    fetched,           \* SpecFetch: what fetch_camera_summary returned
    store,             \* SpecConfig: the persisted settings, key to value
    env,               \* SpecConfig: the static defaults of get_settings()
    effective,         \* SpecConfig: what get_effective_camera_config returned
    saved,             \* SpecAdmin: history, the latest save and the store before it
    payload,           \* SpecBlock: the text of a block or of a getSummary reply
    source,            \* SpecBlock: the DeviceSource the text came from
    read,              \* SpecBlock: history, what each path did with the text
    cycle              \* SpecCycle: where camera_sync_loop stands in its cycle

engine_vars == <<channels, occupancy_offset, applied, last>>
async_vars == <<pc, frame, running, stamp>>
poll_vars == <<device, in_flight, recorded, highest>>
sup_vars == <<sup_state, backoff, waited, _stopped, fails, came_from>>
stream_vars == <<handling, outcome, lifespan, background>>
sink_vars == <<result>>
wire_vars == <<stream, delivery, boundary, unread, buffer, parts, yielded,
               consuming, calls>>
fetch_vars == <<requests, fetched>>
config_vars == <<store, env, effective, saved>>
block_vars == <<payload, source, read>>
cycle_vars == <<cycle>>
edge_vars == <<wire_vars, fetch_vars, config_vars, block_vars, cycle_vars>>
vars == <<channels, occupancy_offset, applied, last, pc, frame, running, stamp,
          device, in_flight, recorded, highest,
          sup_state, backoff, waited, _stopped, fails, came_from,
          handling, outcome, lifespan, background, result,
          stream, delivery, boundary, unread, buffer, parts, yielded,
          consuming, calls, requests, fetched, store, env, effective, saved,
          payload, source, read, cycle>>

-----------------------------------------------------------------------------
(* Bounds of the model *)

\* counter totals reported by a device range over 0..MaxCount
MaxCount == 1
\* gauge readings range over -1..MaxInside
MaxInside == 1
\* manual targets range over -MaxTarget..MaxTarget
MaxTarget == 1

Counts == 0..MaxCount
InsideReadings == (0 - 1)..MaxInside
Targets == (0 - MaxTarget)..MaxTarget

-----------------------------------------------------------------------------
(* Configuration *)

camera_d4_channel == 3
camera_d6_channel == 5
camera_d4_attach_channel == 1

\* the channels a caller may name: the two logical channels, and a channel
\* number that is no logical channel (the device's attach channel)
ApiChannels == {camera_d4_channel, camera_d6_channel, camera_d4_attach_channel}

\* the cameras table after init_from_db
Cameras ==
    {[id |-> "D4", api_channel |-> camera_d4_channel],
     [id |-> "D6", api_channel |-> camera_d6_channel]}

Reasons == {"MANUAL_SET", "MANUAL_RESET", "SCHEDULED_RESET"}

-----------------------------------------------------------------------------
(* The engine's computations *)

Max(a, b) == IF a >= b THEN a ELSE b

ChannelState(camera_name, api_channel) ==
    [camera_name |-> camera_name, api_channel |-> api_channel,
     last_entered |-> 0, last_exited |-> 0, inside_total |-> 0]

\* _channels as init_from_db leaves it
InitialChannels ==
    [ch \in {camera_d4_channel, camera_d6_channel} |->
        IF ch = camera_d4_channel
        THEN ChannelState("D4", camera_d4_channel)
        ELSE ChannelState("D6", camera_d6_channel)]

\* services.py 171-206 with the offset left out of the per-camera values
SnapshotWithoutOffsetInCameras(chs, offset) ==
    LET d4_val == chs[camera_d4_channel].inside_total
                  + (chs[camera_d4_channel].last_entered
                     - chs[camera_d4_channel].last_exited)
        d6_val == chs[camera_d6_channel].last_entered
                  - chs[camera_d6_channel].last_exited
    IN  [presenti_totali |-> d4_val + d6_val + offset,
         per_camera |-> <<[camera |-> "D4", presenti |-> d4_val],
                          [camera |-> "D6", presenti |-> d6_val]>>]

\* services.py 171-206 with the gauge of D6 counted as well
SnapshotCountingD6Gauge(chs, offset) ==
    LET d4_val == chs[camera_d4_channel].inside_total
                  + (chs[camera_d4_channel].last_entered
                     - chs[camera_d4_channel].last_exited)
        d6_val == chs[camera_d6_channel].inside_total
                  + (chs[camera_d6_channel].last_entered
                     - chs[camera_d6_channel].last_exited)
    IN  [presenti_totali |-> d4_val + d6_val + offset,
         per_camera |-> <<[camera |-> "D4", presenti |-> d4_val + offset],
                          [camera |-> "D6", presenti |-> d6_val]>>]

\* services.py 162-206
get_presence_snapshot(chs, offset) ==
    LET d4_val == IF camera_d4_channel \in DOMAIN chs
                  THEN chs[camera_d4_channel].inside_total
                       + (chs[camera_d4_channel].last_entered
                          - chs[camera_d4_channel].last_exited)
                  ELSE 0
        d6_val == IF camera_d6_channel \in DOMAIN chs
                  THEN chs[camera_d6_channel].last_entered
                       - chs[camera_d6_channel].last_exited
                  ELSE 0
        raw_total == d4_val + d6_val
    IN  [presenti_totali |-> raw_total + offset,
         per_camera |-> <<[camera |-> "D4", presenti |-> d4_val + offset],
                          [camera |-> "D6", presenti |-> d6_val]>>]

\* services.py 100-101: the stored totals are overwritten
StoreTotalsKeepingHighest(chs, api_channel, entered_total, exited_total) ==
    [chs EXCEPT ![api_channel].last_entered = Max(@, entered_total),
                ![api_channel].last_exited = Max(@, exited_total)]

StoreTotals(chs, api_channel, entered_total, exited_total) ==
    [chs EXCEPT ![api_channel].last_entered = entered_total,
                ![api_channel].last_exited = exited_total]

\* services.py 103-104: the clamped delta
DeltaFromZero(total, prev) == Max(0, total)

Delta(total, prev) == Max(0, total - prev)

\* services.py 109-112: the camera row of a channel
CameraOf(api_channel) ==
    CHOOSE c \in Cameras : c.api_channel = api_channel

PeopleEvent(camera_id, direction, delta, entered_total, exited_total, occupancy_after) ==
    [camera_id |-> camera_id, direction |-> direction, delta |-> delta,
     entered_total |-> entered_total, exited_total |-> exited_total,
     occupancy_after |-> occupancy_after]

\* services.py 116-143: the rows handed to the session
NewEventsAlsoZero(api_channel, entered_total, exited_total, delta_enter, delta_exit, total_after) ==
    <<PeopleEvent(CameraOf(api_channel).id, "ENTRATA", delta_enter,
                  entered_total, exited_total, total_after),
      PeopleEvent(CameraOf(api_channel).id, "USCITA", delta_exit,
                  entered_total, exited_total, total_after)>>

NewEvents(api_channel, entered_total, exited_total, delta_enter, delta_exit, total_after) ==
    LET camera == CameraOf(api_channel)
    IN  (IF delta_enter > 0
         THEN <<PeopleEvent(camera.id, "ENTRATA", delta_enter,
                            entered_total, exited_total, total_after)>>
         ELSE <<>>)
        \o
        (IF delta_exit > 0
         THEN <<PeopleEvent(camera.id, "USCITA", delta_exit,
                            entered_total, exited_total, total_after)>>
         ELSE <<>>)

\* services.py 244-247
OccupancyDiffFromRaw(target_occupancy, chs, offset) ==
    target_occupancy - get_presence_snapshot(chs, 0).presenti_totali

OccupancyDiff(target_occupancy, chs, offset) ==
    target_occupancy - get_presence_snapshot(chs, offset).presenti_totali

\* services.py 262-267
ResetLogReasonOnly(reason, target_occupancy) ==
    [camera_id |-> CameraOf(camera_d4_channel).id,
     reason |-> reason,
     success |-> TRUE]

ResetLog(reason, target_occupancy) ==
    [camera_id |-> CameraOf(camera_d4_channel).id,
     reason |-> reason \o ": " \o ToString(target_occupancy),
     success |-> TRUE]

\* services.py 249-270: no row when the target is the current total
AuditRowsAlways(diff, reason, target_occupancy) ==
    <<ResetLog(reason, target_occupancy)>>

AuditRows(diff, reason, target_occupancy) ==
    IF diff = 0 THEN <<>> ELSE <<ResetLog(reason, target_occupancy)>>

Total == get_presence_snapshot(channels, occupancy_offset).presenti_totali

StoredTotals(ch) == <<channels[ch].last_entered, channels[ch].last_exited>>

-----------------------------------------------------------------------------
(* The engine, one handler call at a time *)

\* Python's None
None == [none |-> TRUE]

\* services.py 91, 156 with the device's own ChannelState as a fallback
GetChannelOrD4(chs, api_channel) ==
    IF api_channel \in DOMAIN chs THEN chs[api_channel] ELSE chs[camera_d4_channel]

\* services.py 91, 156: self._channels.get(api_channel)
GetChannel(chs, api_channel) ==
    IF api_channel \in DOMAIN chs THEN chs[api_channel] ELSE None

\* services.py 79-143, run to its return
HandleRawTotals(api_channel, entered_total, exited_total) ==
    IF GetChannel(channels, api_channel) = None
    THEN /\ last' = [op |-> "handle_raw_totals", api_channel |-> api_channel,
                     ignored |-> TRUE]
         /\ UNCHANGED <<channels, occupancy_offset, applied>>
    ELSE LET state == GetChannel(channels, api_channel)
             prev_entered == state.last_entered
             prev_exited == state.last_exited
             stored == StoreTotals(channels, state.api_channel,
                                   entered_total, exited_total)
             delta_enter == Delta(entered_total, prev_entered)
             delta_exit == Delta(exited_total, prev_exited)
             total_after == get_presence_snapshot(stored, occupancy_offset).presenti_totali
             rows == IF delta_enter = 0 /\ delta_exit = 0
                     THEN <<>>
                     ELSE NewEvents(api_channel, entered_total, exited_total,
                                    delta_enter, delta_exit, total_after)
         IN  /\ channels' = stored
             /\ UNCHANGED occupancy_offset
             /\ applied' = [applied EXCEPT ![state.api_channel] =
                                            <<entered_total, exited_total>>]
             /\ last' = [op |-> "handle_raw_totals", api_channel |-> api_channel,
                         ignored |-> FALSE,
                         entered_total |-> entered_total, exited_total |-> exited_total,
                         before |-> applied[state.api_channel],
                         delta_enter |-> delta_enter, delta_exit |-> delta_exit,
                         rows |-> rows,
                         same_state |-> (channels' = channels
                                         /\ occupancy_offset' = occupancy_offset),
                         same_total |-> (Total' = Total),
                         total_change |-> Total' - Total]

\* services.py 145-160 with the reading stored as it arrives
HandleInsideTotalUnclamped(api_channel, inside_total) ==
    LET state == GetChannel(channels, api_channel)
    IN  /\ IF state = None
           THEN UNCHANGED channels
           ELSE channels' = [channels EXCEPT
                                ![state.api_channel].inside_total = inside_total]
        /\ last' = [op |-> "handle_inside_total", api_channel |-> api_channel,
                    ignored |-> (state = None),
                    inside_total |-> inside_total, rows |-> <<>>]
        /\ UNCHANGED <<occupancy_offset, applied>>

\* services.py 145-160; the session is handed no row
HandleInsideTotal(api_channel, inside_total) ==
    LET state == GetChannel(channels, api_channel)
    IN  /\ IF state = None
           THEN UNCHANGED channels
           ELSE channels' = [channels EXCEPT
                                ![state.api_channel].inside_total = Max(0, inside_total)]
        /\ last' = [op |-> "handle_inside_total", api_channel |-> api_channel,
                    ignored |-> (state = None),
                    inside_total |-> inside_total, rows |-> <<>>]
        /\ UNCHANGED <<occupancy_offset, applied>>

\* services.py 232-272, run to its return; via is the entry point called,
\* since is history: the offset less the total before the first of the
\* corrections made in a row, whether that offset was zero, and whether
\* this is the first of them
SetOccupancy(target_occupancy, reason, via) ==
    LET diff == OccupancyDiff(target_occupancy, channels, occupancy_offset)
    IN  /\ occupancy_offset' = IF diff = 0 THEN occupancy_offset
                               ELSE occupancy_offset + diff
        /\ UNCHANGED <<channels, applied>>
        /\ last' = [op |-> "set_occupancy", via |-> via,
                    target_occupancy |-> target_occupancy, reason |-> reason,
                    at_target |-> (Total = target_occupancy),
                    same_offset |-> (occupancy_offset' = occupancy_offset),
                    audit |-> AuditRows(diff, reason, target_occupancy),
                    since |-> IF last.op = "set_occupancy"
                              THEN [last.since EXCEPT !.corrections = 2]
                              ELSE [base |-> occupancy_offset - Total,
                                    from_zero |-> (occupancy_offset = 0),
                                    corrections |-> 1]]

\* services.py 208-214; the reason defaults to SCHEDULED_RESET
ResetOccupancy(reason) == SetOccupancy(0, reason, "reset_occupancy")

\* services.py 162-206 with the value attributed to D4 written back
GetPresenceSnapshotStoringD4 ==
    LET snapshot == get_presence_snapshot(channels, occupancy_offset)
    IN  /\ channels' = [channels EXCEPT ![camera_d4_channel].inside_total =
                            Max(0, snapshot.per_camera[1].presenti)]
        /\ last' = [op |-> "get_presence_snapshot", returned |-> snapshot]
        /\ UNCHANGED <<occupancy_offset, applied>>

\* services.py 162-206, the read query behind GET /presence (routes.py 38-46)
GetPresenceSnapshot ==
    /\ last' = [op |-> "get_presence_snapshot",
                returned |-> get_presence_snapshot(channels, occupancy_offset)]
    /\ UNCHANGED <<channels, occupancy_offset, applied>>

\* services.py 216-230: one dictionary per channel
get_debug_state(chs) ==
    [ch \in DOMAIN chs |->
        [api_channel |-> ch, camera |-> chs[ch].camera_name,
         last_entered |-> chs[ch].last_entered,
         last_exited |-> chs[ch].last_exited,
         inside_total |-> chs[ch].inside_total]]

\* services.py 216-230, the read query behind routes.py 77
GetDebugState ==
    /\ last' = [op |-> "get_debug_state", returned |-> get_debug_state(channels)]
    /\ UNCHANGED <<channels, occupancy_offset, applied>>

EngineInit ==
    /\ channels = InitialChannels
    /\ occupancy_offset = 0
    /\ applied = [ch \in DOMAIN InitialChannels |-> <<>>]
    /\ last = [op |-> "init"]

AsyncIdle ==
    /\ pc = <<>>
    /\ frame = <<>>
    /\ running = "none"
    /\ stamp = <<>>

PollIdle ==
    /\ device = <<>>
    /\ in_flight = <<>>
    /\ recorded = <<>>
    /\ highest = <<>>

SupIdle ==
    /\ sup_state = <<>>
    /\ backoff = <<>>
    /\ waited = <<>>
    /\ _stopped = FALSE
    /\ fails = <<>>
    /\ came_from = <<>>

StreamIdle ==
    /\ handling = <<>>
    /\ outcome = <<>>
    /\ lifespan = "serving"
    /\ background = <<>>

SinkIdle == result = <<>>

WireIdle ==
    /\ stream = <<>>
    /\ delivery = <<>>
    /\ boundary = <<>>
    /\ unread = <<>>
    /\ buffer = <<>>
    /\ parts = <<>>
    /\ yielded = <<>>
    /\ consuming = <<>>
    /\ calls = <<>>

FetchIdle ==
    /\ requests = <<>>
    /\ fetched = <<>>

ConfigIdle ==
    /\ store = <<>>
    /\ env = <<>>
    /\ effective = <<>>
    /\ saved = <<>>

BlockIdle ==
    /\ payload = <<>>
    /\ source = <<>>
    /\ read = <<>>

CycleIdle == cycle = <<>>

EdgeIdle == WireIdle /\ FetchIdle /\ ConfigIdle /\ BlockIdle /\ CycleIdle

Init ==
    /\ EngineInit
    /\ AsyncIdle
    /\ PollIdle
    /\ SupIdle
    /\ StreamIdle
    /\ SinkIdle
    /\ EdgeIdle

ApplyTotals ==
    /\ \E ch \in ApiChannels, e \in Counts, x \in Counts : HandleRawTotals(ch, e, x)
    /\ UNCHANGED <<async_vars, poll_vars, sup_vars, stream_vars, sink_vars, edge_vars>>

ApplyInside ==
    /\ \E ch \in ApiChannels, i \in InsideReadings : HandleInsideTotal(ch, i)
    /\ UNCHANGED <<async_vars, poll_vars, sup_vars, stream_vars, sink_vars, edge_vars>>

ManualSet ==
    /\ \E t \in Targets : SetOccupancy(t, "MANUAL_SET", "set_occupancy")
    /\ UNCHANGED <<async_vars, poll_vars, sup_vars, stream_vars, sink_vars, edge_vars>>

Reset ==
    /\ \E r \in {"MANUAL_RESET", "SCHEDULED_RESET"} : ResetOccupancy(r)
    /\ UNCHANGED <<async_vars, poll_vars, sup_vars, stream_vars, sink_vars, edge_vars>>

ReadPresence ==
    /\ GetPresenceSnapshot
    /\ UNCHANGED <<async_vars, poll_vars, sup_vars, stream_vars, sink_vars, edge_vars>>

ReadDebugState ==
    /\ GetDebugState
    /\ UNCHANGED <<async_vars, poll_vars, sup_vars, stream_vars, sink_vars, edge_vars>>

Next ==
    \/ ApplyTotals
    \/ ApplyInside
    \/ ManualSet
    \/ Reset
    \/ ReadPresence
    \/ ReadDebugState

Spec == Init /\ [][Next]_vars

-----------------------------------------------------------------------------
(* The engine under the tasks of main.py.  A coroutine runs from one await  *)
(* to the next without any other task running; at an await the event loop   *)
(* may run any other task.                                                  *)

\* lifespan: a device's attach task, camera_sync_loop, scheduler_loop, and a
\* request handler of routes.py.  The attach task of D6 runs the code of
\* D4's on the other channel and is left out.
Tasks == {"attach-D4", "camera_sync", "scheduler", "api"}

\* the totals the devices report in SpecAsync
SampleTotals == 0..1

\* the channels each task passes to totals_handler (main.py 97-116, 153-178)
TotalsChannels(t) ==
    CASE t = "attach-D4" -> {camera_d4_channel}
      [] t = "camera_sync" -> {camera_d4_channel, camera_d6_channel}
      [] OTHER -> {}

\* the channels each task passes to inside_handler; fetch_camera_summary
\* returns no "inside", so camera_sync_loop never calls it
InsideChannels(t) ==
    CASE t = "attach-D4" -> {camera_d4_channel}
      [] OTHER -> {}

\* the corrections each task asks for (main.py 49, routes.py 22, 32-34)
Corrections(t) ==
    CASE t = "scheduler" -> {<<0, "SCHEDULED_RESET">>}
      [] t = "api" -> {<<0, "MANUAL_RESET">>}
                      \cup {<<target, "MANUAL_SET">> : target \in Targets}
      [] OTHER -> {}

\* the places where a handler is suspended in an await: services.py 110
\* (session.scalar), 258 (session.scalar), 272 (session.flush)
AwaitsBeforeWrite(label) == label \in {"hrt_write", "hrt_query", "set_query", "set_flush"}

Awaits(label) == label \in {"hrt_query", "set_query", "set_flush"}

\* the event loop runs t: no other task is between two of its awaits
Scheduled(t) == running \in {"none", t}

\* t has moved to label: it keeps the loop unless it returned or awaits there
Yield(t, label) ==
    running' = IF label = "idle" \/ Awaits(label) THEN "none" ELSE t

Goto(t, label, locals) ==
    /\ pc' = [pc EXCEPT ![t] = label]
    /\ frame' = [frame EXCEPT ![t] = locals]
    /\ Yield(t, label)

\* services.py 91-97: look the channel up, read the previous totals
EnterTotals(t, api_channel, entered_total, exited_total) ==
    /\ pc[t] = "idle"
    /\ Scheduled(t)
    /\ IF api_channel \notin DOMAIN channels
       THEN Goto(t, "idle", <<>>)
       ELSE Goto(t, "hrt_write",
                 [api_channel |-> api_channel,
                  entered_total |-> entered_total, exited_total |-> exited_total,
                  prev_entered |-> channels[api_channel].last_entered,
                  prev_exited |-> channels[api_channel].last_exited])
    /\ UNCHANGED <<engine_vars, poll_vars, sup_vars, stream_vars, sink_vars, edge_vars>>

\* services.py 100-110: overwrite the totals, compute the deltas, return
\* when both are zero, else await the camera row
WriteTotals(t) ==
    /\ pc[t] = "hrt_write"
    /\ Scheduled(t)
    /\ LET f == frame[t]
           delta_enter == Delta(f.entered_total, f.prev_entered)
           delta_exit == Delta(f.exited_total, f.prev_exited)
           stored == StoreTotals(channels, f.api_channel,
                                 f.entered_total, f.exited_total)
       IN  /\ channels' = stored
           /\ IF delta_enter = 0 /\ delta_exit = 0
              THEN Goto(t, "idle", <<>>)
              ELSE Goto(t, "hrt_query",
                        [api_channel |-> f.api_channel,
                         entered_total |-> f.entered_total,
                         exited_total |-> f.exited_total,
                         delta_enter |-> delta_enter, delta_exit |-> delta_exit])
    /\ UNCHANGED <<occupancy_offset, applied, last, poll_vars, sup_vars, stream_vars, sink_vars, edge_vars>>

\* services.py 113-143: the camera row is there; total_after is read from
\* the engine as it is now (119), the rows are handed to the session, which
\* is no part of the engine's state, and the call returns
RecordEvents(t) ==
    /\ pc[t] = "hrt_query"
    /\ Scheduled(t)
    /\ Goto(t, "idle", <<>>)
    /\ UNCHANGED <<engine_vars, poll_vars, sup_vars, stream_vars, sink_vars, edge_vars>>

\* services.py 145-160, which awaits nothing
Gauge(t, api_channel, inside_total) ==
    /\ pc[t] = "idle"
    /\ Scheduled(t)
    /\ IF api_channel \notin DOMAIN channels
       THEN UNCHANGED channels
       ELSE channels' = [channels EXCEPT ![api_channel].inside_total = Max(0, inside_total)]
    /\ Goto(t, "idle", <<>>)
    /\ UNCHANGED <<occupancy_offset, applied, last, poll_vars, sup_vars, stream_vars, sink_vars, edge_vars>>

\* services.py 240-258: compute the difference, return when it is zero, else
\* add it to the offset and await the camera row
BeginSet(t, target_occupancy, reason) ==
    /\ pc[t] = "idle"
    /\ Scheduled(t)
    /\ LET diff == OccupancyDiff(target_occupancy, channels, occupancy_offset)
       IN  IF diff = 0
           THEN /\ UNCHANGED occupancy_offset
                /\ Goto(t, "idle", <<>>)
           ELSE /\ occupancy_offset' = occupancy_offset + diff
                /\ Goto(t, "set_query",
                        [target_occupancy |-> target_occupancy, reason |-> reason])
    /\ UNCHANGED <<channels, applied, last, poll_vars, sup_vars, stream_vars, sink_vars, edge_vars>>

\* services.py 261-272: hand the ResetLog row to the session, await the flush
LogSet(t) ==
    /\ pc[t] = "set_query"
    /\ Scheduled(t)
    /\ Goto(t, "set_flush", <<>>)
    /\ UNCHANGED <<engine_vars, poll_vars, sup_vars, stream_vars, sink_vars, edge_vars>>

\* services.py 272: the flush is done, set_occupancy returns
ReturnSet(t) ==
    /\ pc[t] = "set_flush"
    /\ Scheduled(t)
    /\ Goto(t, "idle", <<>>)
    /\ UNCHANGED <<engine_vars, poll_vars, sup_vars, stream_vars, sink_vars, edge_vars>>

InitAsync ==
    /\ EngineInit
    /\ pc = [t \in Tasks |-> "idle"]
    /\ frame = [t \in Tasks |-> <<>>]
    /\ running = "none"
    /\ stamp = [t \in Tasks |-> <<>>]
    /\ PollIdle
    /\ SupIdle
    /\ StreamIdle
    /\ SinkIdle
    /\ EdgeIdle

TotalsCall ==
    /\ \E t \in Tasks : \E ch \in TotalsChannels(t), e \in SampleTotals, x \in SampleTotals :
        EnterTotals(t, ch, e, x)
    /\ UNCHANGED stamp

TotalsWrite ==
    /\ \E t \in Tasks : WriteTotals(t)
    /\ UNCHANGED stamp

TotalsRecord ==
    /\ \E t \in Tasks : RecordEvents(t)
    /\ UNCHANGED stamp

GaugeCall ==
    /\ \E t \in Tasks : \E ch \in InsideChannels(t), i \in InsideReadings :
        Gauge(t, ch, i)
    /\ UNCHANGED stamp

SetCall ==
    /\ \E t \in Tasks : \E c \in Corrections(t) : BeginSet(t, c[1], c[2])
    /\ UNCHANGED stamp

SetLog ==
    /\ \E t \in Tasks : LogSet(t)
    /\ UNCHANGED stamp

SetReturn ==
    /\ \E t \in Tasks : ReturnSet(t)
    /\ UNCHANGED stamp

NextAsync ==
    \/ TotalsCall
    \/ TotalsWrite
    \/ TotalsRecord
    \/ GaugeCall
    \/ SetCall
    \/ SetLog
    \/ SetReturn

SpecAsync == InitAsync /\ [][NextAsync]_vars

-----------------------------------------------------------------------------
(* Two of the tasks, an attach task and a request handler, with the        *)
(* history of what the rows of each snapshot are stamped with               *)

StampTasks == {"attach-D4", "api"}

\* services.py 119: self.get_presence_snapshot()["presenti_totali"]
total_after(chs, offset) == get_presence_snapshot(chs, offset).presenti_totali

StampCall ==
    /\ \E t \in StampTasks :
        /\ \E ch \in TotalsChannels(t), e \in SampleTotals, x \in SampleTotals :
            EnterTotals(t, ch, e, x)
        /\ stamp' = [stamp EXCEPT ![t] = <<>>]

\* services.py 100-101: the state this update produces has this total
StampWrite ==
    /\ \E t \in StampTasks :
        /\ WriteTotals(t)
        /\ stamp' = [stamp EXCEPT ![t] =
               [after_update |-> total_after(channels', occupancy_offset)]]

\* services.py 119-143: the rows carry the total read at line 119
StampRecord ==
    /\ \E t \in StampTasks :
        /\ RecordEvents(t)
        /\ stamp' = [stamp EXCEPT ![t] =
               [after_update |-> stamp[t].after_update,
                occupancy_after |-> total_after(channels, occupancy_offset)]]

StampGauge ==
    /\ \E t \in StampTasks : \E ch \in InsideChannels(t), i \in InsideReadings :
        Gauge(t, ch, i)
    /\ UNCHANGED stamp

StampSet ==
    /\ \E t \in StampTasks : \E c \in Corrections(t) : BeginSet(t, c[1], c[2])
    /\ UNCHANGED stamp

StampSetLog ==
    /\ \E t \in StampTasks : LogSet(t)
    /\ UNCHANGED stamp

StampSetReturn ==
    /\ \E t \in StampTasks : ReturnSet(t)
    /\ UNCHANGED stamp

NextStamp ==
    \/ StampCall
    \/ StampWrite
    \/ StampRecord
    \/ StampGauge
    \/ StampSet
    \/ StampSetLog
    \/ StampSetReturn

SpecStamp == InitAsync /\ [][NextStamp]_vars

-----------------------------------------------------------------------------
(* One device whose counters never decrease, read by its attach stream and  *)
(* by camera_sync_loop.  A summary is fetched at one moment and applied at  *)
(* a later one; the attach task may run in between.                         *)

RECURSIVE SumDeltas(_, _)
SumDeltas(rows, direction) ==
    IF rows = <<>> THEN 0
    ELSE (IF Head(rows).direction = direction THEN Head(rows).delta ELSE 0)
         + SumDeltas(Tail(rows), direction)

\* the camera counts a crossing
DeviceCounts ==
    /\ \/ /\ device.entered < MaxCount
          /\ device' = [device EXCEPT !.entered = @ + 1]
       \/ /\ device.exited < MaxCount
          /\ device' = [device EXCEPT !.exited = @ + 1]
    /\ UNCHANGED <<engine_vars, async_vars, in_flight, recorded, highest, sup_vars, stream_vars, sink_vars, edge_vars>>

\* bookkeeping of a snapshot just applied: the deltas of its rows, its totals
Account ==
    /\ recorded' = [entered |-> recorded.entered + SumDeltas(last'.rows, "ENTRATA"),
                    exited |-> recorded.exited + SumDeltas(last'.rows, "USCITA")]
    /\ highest' = [entered |-> Max(highest.entered, last'.entered_total),
                   exited |-> Max(highest.exited, last'.exited_total)]

\* people_subscriber.py 108-125: a NumberStat block carrying the device's
\* current totals reaches totals_handler
StreamSnapshot ==
    /\ HandleRawTotals(camera_d4_channel, device.entered, device.exited)
    /\ Account
    /\ UNCHANGED <<async_vars, device, in_flight, sup_vars, stream_vars, sink_vars, edge_vars>>

\* main.py 145-152: fetch_camera_summary reads the device's current totals
FetchSummary ==
    /\ in_flight = <<>>
    /\ in_flight' = <<device.entered, device.exited>>
    /\ UNCHANGED <<engine_vars, async_vars, device, recorded, highest, sup_vars, stream_vars, sink_vars, edge_vars>>

\* main.py 153-158: the fetched totals reach totals_handler
ApplySummary ==
    /\ in_flight # <<>>
    /\ HandleRawTotals(camera_d4_channel, in_flight[1], in_flight[2])
    /\ Account
    /\ in_flight' = <<>>
    /\ UNCHANGED <<async_vars, device, sup_vars, stream_vars, sink_vars, edge_vars>>

InitPoll ==
    /\ EngineInit
    /\ AsyncIdle
    /\ device = [entered |-> 0, exited |-> 0]
    /\ in_flight = <<>>
    /\ recorded = [entered |-> 0, exited |-> 0]
    /\ highest = [entered |-> 0, exited |-> 0]
    /\ SupIdle
    /\ StreamIdle
    /\ SinkIdle
    /\ EdgeIdle

NextPoll ==
    \/ DeviceCounts
    \/ StreamSnapshot
    \/ FetchSummary
    \/ ApplySummary

SpecPoll == InitPoll /\ [][NextPoll]_vars

-----------------------------------------------------------------------------
(* The reconnect loop of _run_source, one task per device *)

Devices == {"D4", "D6"}

\* people_subscriber.py 75
max_backoff == 60

\* consecutive failures followed per supervisor
MaxFailures == 8

Min(a, b) == IF a <= b THEN a ELSE b

\* people_subscriber.py 166
NextBackoffUncapped(b) == b * 2

NextBackoff(b) == Min(max_backoff, b * 2)

\* a task that stop() leaves running
AliveIgnoringStop(d) == sup_state[d] \notin {"CLOSING", "STOPPED"}

\* a task that stands still while another one sleeps
AliveWhenSiblingsUp(d) ==
    /\ ~_stopped
    /\ sup_state[d] \notin {"CLOSING", "STOPPED"}
    /\ \A e \in DOMAIN sup_state : e # d => sup_state[e] # "BACKOFF"

\* every step of a task but the delivery of its cancellation: stop() cancels
\* the task, and a cancelled task resumes only to raise CancelledError
Alive(d) == ~_stopped /\ sup_state[d] \notin {"CLOSING", "STOPPED"}

ToState(d, state) ==
    /\ sup_state' = [sup_state EXCEPT ![d] = state]
    /\ came_from' = [came_from EXCEPT ![d] = sup_state[d]]

\* what no step of the reconnect loop touches
OutsideSupervisor ==
    <<engine_vars, async_vars, poll_vars, stream_vars, sink_vars, edge_vars>>

\* people_subscriber.py 88-91: the attach request is answered with a 2xx
ConnectOk(d) ==
    /\ Alive(d)
    /\ sup_state[d] = "CONNECTING"
    /\ ToState(d, "STREAMING")
    /\ UNCHANGED <<backoff, waited, _stopped, fails, OutsideSupervisor>>

\* people_subscriber.py 157-165: an exception out of the try block is
\* logged and the task sleeps for the current backoff
Sleep(d) ==
    /\ fails[d] < MaxFailures
    /\ ToState(d, "BACKOFF")
    /\ waited' = [waited EXCEPT ![d] = backoff[d]]
    /\ fails' = [fails EXCEPT ![d] = @ + 1]
    /\ UNCHANGED <<backoff, _stopped, OutsideSupervisor>>

\* people_subscriber.py 79-91: connect error, auth failure, non-2xx status
ConnectFail(d) ==
    /\ Alive(d)
    /\ sup_state[d] = "CONNECTING"
    /\ Sleep(d)

\* people_subscriber.py 95: reading the response raises
StreamFail(d) ==
    /\ Alive(d)
    /\ sup_state[d] = "STREAMING"
    /\ handling[d] = "none"
    /\ Sleep(d)

\* people_subscriber.py 95, 152-153: the device closes the stream, the async
\* for ends, the with blocks exit without an exception
StreamEnd(d) ==
    /\ Alive(d)
    /\ sup_state[d] = "STREAMING"
    /\ handling[d] = "none"
    /\ backoff' = [backoff EXCEPT ![d] = 1]
    /\ fails' = [fails EXCEPT ![d] = 0]
    /\ ToState(d, "CONNECTING")
    /\ UNCHANGED <<waited, _stopped, OutsideSupervisor>>

\* people_subscriber.py 77, 166: after the sleep the loop goes round again
AfterSleepGivingUp(d) == IF fails[d] >= 1 THEN "STOPPED" ELSE "CONNECTING"

\* a task that goes on sleeping once the ceiling is reached
AfterSleepStayingDown(d) ==
    IF backoff[d] >= max_backoff THEN "BACKOFF" ELSE "CONNECTING"

AfterSleep(d) == "CONNECTING"

\* people_subscriber.py 165-166, 77: the sleep is over
Wake(d) ==
    /\ Alive(d)
    /\ sup_state[d] = "BACKOFF"
    /\ backoff' = [backoff EXCEPT ![d] = NextBackoff(@)]
    /\ ToState(d, AfterSleep(d))
    /\ UNCHANGED <<waited, _stopped, fails, OutsideSupervisor>>

\* people_subscriber.py 61-65: the flag is set and every task is cancelled
StopCall ==
    /\ ~_stopped
    /\ _stopped' = TRUE
    /\ UNCHANGED <<sup_state, backoff, waited, fails, came_from>>

Stop ==
    /\ StopCall
    /\ UNCHANGED OutsideSupervisor

\* people_subscriber.py 155-156: CancelledError is raised at the await the
\* task is suspended in.  Out of the sleep of line 165 it ends the task at
\* once; inside the with blocks of lines 79 and 88, or inside get_session
\* (db.py 47-48), it first runs their exits, which await the close of the
\* connection or session and may or may not suspend there.
Cancelled(d) ==
    /\ _stopped
    /\ sup_state[d] \notin {"CLOSING", "STOPPED"}
    /\ \/ ToState(d, "STOPPED")
       \/ /\ sup_state[d] \in {"CONNECTING", "STREAMING"}
          /\ ToState(d, "CLOSING")
    /\ handling' = [handling EXCEPT ![d] = "none"]
    /\ UNCHANGED <<backoff, waited, _stopped, fails, engine_vars, async_vars,
                   poll_vars, outcome, lifespan, background, sink_vars, edge_vars>>

\* the exits of the with blocks are through
Closed(d) ==
    /\ sup_state[d] = "CLOSING"
    /\ ToState(d, "STOPPED")
    /\ UNCHANGED <<backoff, waited, _stopped, fails, OutsideSupervisor>>

BackgroundTasks == {"scheduler", "camera_sync"}

\* people_subscriber.py 53-59, 74; main.py 117-120, 188-189
InitSup ==
    /\ EngineInit
    /\ AsyncIdle
    /\ PollIdle
    /\ SinkIdle
    /\ EdgeIdle
    /\ sup_state = [d \in Devices |-> "CONNECTING"]
    /\ backoff = [d \in Devices |-> 1]
    /\ waited = [d \in Devices |-> 0]
    /\ _stopped = FALSE
    /\ fails = [d \in Devices |-> 0]
    /\ came_from = [d \in Devices |-> "START"]
    /\ handling = [d \in Devices |-> "none"]
    /\ outcome = [result |-> "none", malformed |-> FALSE]
    /\ lifespan = "serving"
    /\ background = [t \in BackgroundTasks |-> "running"]

NextSup ==
    \/ \E d \in Devices : ConnectOk(d)
    \/ \E d \in Devices : ConnectFail(d)
    \/ \E d \in Devices : StreamFail(d)
    \/ \E d \in Devices : StreamEnd(d)
    \/ \E d \in Devices : Wake(d)
    \/ Stop
    \/ \E d \in Devices : Cancelled(d)
    \/ \E d \in Devices : Closed(d)

SpecSup == InitSup /\ [][NextSup]_vars

\* people_subscriber.py 165: asyncio.sleep(backoff) returns once its delay,
\* never more than max_backoff, has passed
SpecSupFair ==
    /\ InitSup
    /\ [][NextSup]_vars
    /\ \A d \in Devices : WF_vars(Wake(d))

-----------------------------------------------------------------------------
(* The supervisors with the blocks they receive, the handlers they await    *)
(* and the shutdown of lifespan                                             *)

\* main.py 97-116: the logical channel of each source
LogicalChannel(d) == IF d = "D4" THEN camera_d4_channel ELSE camera_d6_channel

\* the dictionaries _parse_key_value_block returns for the blocks received
NumberStatBlock(entered_str, exited_str) ==
    ("summary.RuleName" :> "NumberStat")
        @@ ("summary.EnteredSubtotal.Today" :> entered_str)
        @@ ("summary.ExitedSubtotal.Today" :> exited_str)

SampleBlocks ==
    { NumberStatBlock("1", "0"),
      NumberStatBlock("abc", "0"),
      NumberStatBlock("1", "1.5"),
      ("summary.RuleName" :> "NumberStat")
          @@ ("summary.ExitedSubtotal.Today" :> "0"),
      ("summary.RuleName" :> "NumberStat")
          @@ ("summary.EnteredSubtotal.Today" :> "1"),
      ("summary.RuleName" :> "ManNumDetection")
          @@ ("summary.InsideSubtotal.Total" :> "1"),
      ("summary.RuleName" :> "ManNumDetection")
          @@ ("summary.InsideSubtotal.Total" :> "x"),
      "summary.RuleName" :> "ManNumDetection",
      "summary.RuleName" :> "CrossLineDetection" }

\* dict.get
get(fields, key) == IF key \in DOMAIN fields THEN fields[key] ELSE "None"

\* int(): the strings of the sample blocks it converts; it raises ValueError
\* on the others
int == ("0" :> 0) @@ ("1" :> 1)

Converts(str) == str \in DOMAIN int

\* people_subscriber.py 104-150 with the rule name left unread
DispatchAnyRule(fields) ==
    LET entered_str == get(fields, "summary.EnteredSubtotal.Today")
        exited_str == get(fields, "summary.ExitedSubtotal.Today")
    IN  IF entered_str = "None" \/ exited_str = "None"
        THEN [do |-> "continue"]
        ELSE IF ~Converts(entered_str) \/ ~Converts(exited_str)
             THEN [do |-> "except"]
             ELSE [do |-> "totals", entered |-> int[entered_str],
                   exited |-> int[exited_str]]

\* people_subscriber.py 104-150 with a missing exited total read as 0
DispatchLenient(fields) ==
    LET rule_name == get(fields, "summary.RuleName")
        entered_str == get(fields, "summary.EnteredSubtotal.Today")
        exited_str == get(fields, "summary.ExitedSubtotal.Today")
    IN  IF rule_name = "NumberStat" /\ entered_str # "None" /\ Converts(entered_str)
        THEN [do |-> "totals", entered |-> int[entered_str], exited |-> 0]
        ELSE [do |-> "continue"]

\* people_subscriber.py 104-150: what the loop body does with a block
Dispatch(fields) ==
    LET rule_name == get(fields, "summary.RuleName")
        entered_str == get(fields, "summary.EnteredSubtotal.Today")
        exited_str == get(fields, "summary.ExitedSubtotal.Today")
        inside_str == get(fields, "summary.InsideSubtotal.Total")
    IN  IF rule_name = "NumberStat"
        THEN IF entered_str = "None" \/ exited_str = "None"
             THEN [do |-> "continue"]
             ELSE IF ~Converts(entered_str) \/ ~Converts(exited_str)
                  THEN [do |-> "except"]
                  ELSE [do |-> "totals", entered |-> int[entered_str],
                        exited |-> int[exited_str]]
        ELSE IF rule_name = "ManNumDetection"
             THEN IF inside_str = "None"
                  THEN [do |-> "continue"]
                  ELSE IF ~Converts(inside_str)
                       THEN [do |-> "except"]
                       ELSE [do |-> "inside", inside |-> int[inside_str]]
             ELSE [do |-> "continue"]

\* a block of a known rule that lacks a field or carries a non-number
Malformed(fields) ==
    LET rule_name == get(fields, "summary.RuleName")
        Bad(key) == get(fields, key) = "None" \/ ~Converts(get(fields, key))
    IN  \/ /\ rule_name = "NumberStat"
           /\ \/ Bad("summary.EnteredSubtotal.Today")
              \/ Bad("summary.ExitedSubtotal.Today")
        \/ /\ rule_name = "ManNumDetection"
           /\ Bad("summary.InsideSubtotal.Total")

\* people_subscriber.py 95: the async for hands the loop body a block
Receives(d) ==
    /\ Alive(d)
    /\ sup_state[d] = "STREAMING"
    /\ handling[d] = "none"

Noted(fields, what) ==
    outcome' = [result |-> what, malformed |-> Malformed(fields)]

\* people_subscriber.py 115-120, 134-135, 142-150: continue, or the except
\* clause that logs the block
DropBlock(d, fields) ==
    /\ Receives(d)
    /\ Dispatch(fields).do \in {"continue", "except"}
    /\ Noted(fields, Dispatch(fields).do)
    /\ UNCHANGED <<engine_vars, async_vars, poll_vars, sup_vars, handling,
                   lifespan, background, sink_vars, edge_vars>>

\* people_subscriber.py 121-125, main.py 79-86
DeliverTotals(d, fields) ==
    /\ Receives(d)
    /\ Dispatch(fields).do = "totals"
    /\ HandleRawTotals(LogicalChannel(d), Dispatch(fields).entered,
                       Dispatch(fields).exited)
    /\ handling' = [handling EXCEPT ![d] = "awaiting"]
    /\ Noted(fields, "totals")
    /\ UNCHANGED <<async_vars, poll_vars, sup_vars, lifespan, background, sink_vars, edge_vars>>

\* people_subscriber.py 136-139, main.py 88-94
DeliverInside(d, fields) ==
    /\ Receives(d)
    /\ Dispatch(fields).do = "inside"
    /\ HandleInsideTotal(LogicalChannel(d), Dispatch(fields).inside)
    /\ handling' = [handling EXCEPT ![d] = "awaiting"]
    /\ Noted(fields, "inside")
    /\ UNCHANGED <<async_vars, poll_vars, sup_vars, lifespan, background, sink_vars, edge_vars>>

HandlerEnds(d, how) ==
    /\ Alive(d)
    /\ handling[d] = "awaiting"
    /\ handling' = [handling EXCEPT ![d] = "none"]
    /\ outcome' = [result |-> how, malformed |-> FALSE]
    /\ UNCHANGED <<engine_vars, async_vars, poll_vars, sup_vars, lifespan,
                   background, sink_vars, edge_vars>>

\* db.py 43, 48: the session commits and the handler returns
HandlerReturns(d) ==
    /\ sup_state[d] = "STREAMING"
    /\ HandlerEnds(d, "returned")

\* db.py 44-46, people_subscriber.py 144-150: the sink fails, get_session
\* rolls back and raises again, the loop body logs the block
HandlerRaises(d) ==
    /\ sup_state[d] = "STREAMING"
    /\ HandlerEnds(d, "raised")

\* main.py 193-196: both background tasks are cancelled and stop() is called
Shutdown ==
    /\ lifespan = "serving"
    /\ StopCall
    /\ lifespan' = "stopping"
    /\ UNCHANGED <<engine_vars, async_vars, poll_vars, handling, outcome,
                   background, sink_vars, edge_vars>>

\* main.py 52-54, 180-181: CancelledError ends scheduler_loop and
\* camera_sync_loop
BackgroundCancelled(t) ==
    /\ lifespan # "serving"
    /\ background[t] = "running"
    /\ background' = [background EXCEPT ![t] = "done"]
    /\ UNCHANGED <<engine_vars, async_vars, poll_vars, sup_vars, handling,
                   outcome, lifespan, sink_vars, edge_vars>>

\* main.py 197-204: the two awaited tasks are done.  The supervisors were
\* cancelled before lifespan suspended, so each has had its CancelledError
\* raised by the time lifespan resumes; none of them is awaited.
LifespanExit ==
    /\ lifespan = "stopping"
    /\ \A t \in BackgroundTasks : background[t] = "done"
    /\ \A d \in Devices : sup_state[d] \in {"CLOSING", "STOPPED"}
    /\ lifespan' = "exited"
    /\ UNCHANGED <<engine_vars, async_vars, poll_vars, sup_vars, handling,
                   outcome, background, sink_vars, edge_vars>>

\* failures in a row followed per supervisor while blocks are delivered
MaxRetries == 1

Retries(d) == fails[d] < MaxRetries

NextStream ==
    \/ \E d \in Devices : ConnectOk(d)
    \/ \E d \in Devices : Retries(d) /\ ConnectFail(d)
    \/ \E d \in Devices : Retries(d) /\ StreamFail(d)
    \/ \E d \in Devices : StreamEnd(d)
    \/ \E d \in Devices : Wake(d)
    \/ \E d \in Devices : \E fields \in SampleBlocks : DropBlock(d, fields)
    \/ \E d \in Devices : \E fields \in SampleBlocks : DeliverTotals(d, fields)
    \/ \E d \in Devices : \E fields \in SampleBlocks : DeliverInside(d, fields)
    \/ \E d \in Devices : HandlerReturns(d)
    \/ \E d \in Devices : HandlerRaises(d)
    \/ Shutdown
    \/ \E t \in BackgroundTasks : BackgroundCancelled(t)
    \/ \E d \in Devices : Cancelled(d)
    \/ \E d \in Devices : Closed(d)
    \/ LifespanExit

SpecStream == InitSup /\ [][NextStream]_vars

\* the event loop runs a cancelled task at its next iteration, and the
\* closing of a connection or session comes to an end
SpecStreamFair ==
    /\ InitSup
    /\ [][NextStream]_vars
    /\ \A d \in Devices : WF_vars(Cancelled(d)) /\ WF_vars(Closed(d))

-----------------------------------------------------------------------------
(* The engine's calls under a persistence sink that may fail: each call is  *)
(* run inside get_session by its caller, and the sink fails at one of the   *)
(* awaits of the call or at none                                            *)

\* services.py 110 and 258 (session.scalar), 272 (session.flush),
\* db.py 43 (session.commit)
SinkFaults == {"none", "query", "flush", "commit"}

\* db.py 44-46 with the engine's memory put back as well
RolledBackInMemory(before, after) == before

\* db.py 44-46: the rollback is the session's; what the engine wrote to its
\* own fields before the await stays
KeptInMemory(before, after) == after

\* main.py 79-86 around services.py 79-143
CallTotals(api_channel, entered_total, exited_total, fault) ==
    LET state == channels[api_channel]
        delta_enter == Delta(entered_total, state.last_entered)
        delta_exit == Delta(exited_total, state.last_exited)
        stored == StoreTotals(channels, api_channel, entered_total, exited_total)
        queried == delta_enter > 0 \/ delta_exit > 0
        raised == queried /\ fault \in {"query", "commit"}
        rows == NewEvents(api_channel, entered_total, exited_total,
                          delta_enter, delta_exit,
                          get_presence_snapshot(stored, occupancy_offset).presenti_totali)
    IN  /\ channels' = IF raised THEN KeptInMemory(channels, stored) ELSE stored
        /\ result' = [op |-> "handle_raw_totals", api_channel |-> api_channel,
                      entered_total |-> entered_total, exited_total |-> exited_total,
                      fault |-> fault, raised |-> raised, swallowed |-> FALSE,
                      persisted |-> IF raised THEN 0 ELSE Len(rows)]
        /\ UNCHANGED <<occupancy_offset, applied, last, async_vars, poll_vars,
                       sup_vars, stream_vars, edge_vars>>

\* routes.py 16-35 and main.py 48-49 around services.py 208-272
CallSet(target_occupancy, reason, fault) ==
    LET diff == OccupancyDiff(target_occupancy, channels, occupancy_offset)
        corrected == occupancy_offset + diff
        swallowed == diff # 0 /\ fault = "query"
        raised == diff # 0 /\ fault \in {"flush", "commit"}
        audit == IF fault = "none" THEN AuditRows(diff, reason, target_occupancy)
                 ELSE <<>>
    IN  /\ occupancy_offset' = IF raised \/ swallowed
                               THEN KeptInMemory(occupancy_offset, corrected)
                               ELSE corrected
        /\ result' = [op |-> "set_occupancy", target_occupancy |-> target_occupancy,
                      fault |-> fault, raised |-> raised, swallowed |-> swallowed,
                      persisted |-> Len(audit)]
        /\ UNCHANGED <<channels, applied, last, async_vars, poll_vars, sup_vars,
                       stream_vars, edge_vars>>

InitSink ==
    /\ EngineInit
    /\ AsyncIdle
    /\ PollIdle
    /\ SupIdle
    /\ StreamIdle
    /\ EdgeIdle
    /\ result = [op |-> "none"]

TotalsUnderSink ==
    \E api_channel \in DOMAIN channels, entered_total \in Counts,
       exited_total \in Counts, fault \in SinkFaults :
        CallTotals(api_channel, entered_total, exited_total, fault)

SetUnderSink ==
    \E target_occupancy \in Targets, reason \in Reasons, fault \in SinkFaults :
        CallSet(target_occupancy, reason, fault)

NextSink ==
    \/ TotalsUnderSink
    \/ SetUnderSink

SpecSink == InitSink /\ [][NextSink]_vars

-----------------------------------------------------------------------------
(* One attach connection: the bytes of its response, the multipart reader  *)
(* that cuts them into blocks, and the loop of _run_source that consumes   *)
(* the blocks one at a time                                                 *)

\* A stream is a sequence of bytes.  "-", "b", "CR", "LF" and "h" (a header
\* byte) are single bytes, "xFF" is a byte that is not valid UTF-8, and "N",
\* "M" and "H" stand for the bytes of a NumberStat text, of a
\* ManNumDetection text and of the word Heartbeat.

\* a stream is framed from at most MaxBlocks blocks
MaxBlocks == 2

\* bytes.strip() removes these
Whitespace == {"CR", "LF", " "}

CRLF == <<"CR", "LF">>

\* the boundary token the device writes between its blocks
Delimiter == <<"-", "-", "b">>

\* people_subscriber.py 174-181: the boundary for the two Content-Type
\* headers of the model; without boundary= it stays None
BoundaryOf ==
    ("multipart/x-mixed-replace; boundary=b" :> <<"-", "-">> \o <<"b">>)
        @@ ("text/plain" :> <<>>)

SampleBodies ==
    { <<"N">>, <<"M">>, <<"H">>, <<"N", "-", "-">>, <<"xFF", "N">> }

BodySeqs == UNION {[1..n -> SampleBodies] : n \in 0..MaxBlocks}

\* bytes.join
RECURSIVE join(_, _)
join(sep, seqs) ==
    IF seqs = <<>> THEN <<>>
    ELSE IF Len(seqs) = 1 THEN seqs[1]
    ELSE seqs[1] \o sep \o join(sep, Tail(seqs))

\* a block as the device writes it: headers, an empty line, the body
Part(body) == <<"h">> \o CRLF \o CRLF \o body \o CRLF

Framings == {"separated", "preceded", "closed", "bare"}

\* the streams of the model: the blocks with the delimiter between them,
\* with the delimiter before each of them, the same closed by the final
\* delimiter, and blocks without a header section
Frame(bodies, framing) ==
    LET whole == [i \in DOMAIN bodies |-> Part(bodies[i])]
        led == [i \in DOMAIN bodies |-> Delimiter \o CRLF \o Part(bodies[i])]
        headless == [i \in DOMAIN bodies |-> bodies[i] \o CRLF \o Delimiter]
    IN  CASE framing = "separated" -> join(Delimiter, whole)
          [] framing = "preceded" -> join(<<>>, led)
          [] framing = "closed" -> join(<<>>, led) \o Delimiter \o <<"-", "-">>
          [] framing = "bare" -> join(<<>>, headless)

OccursAt(s, t, i) ==
    /\ i + Len(t) - 1 <= Len(s)
    /\ SubSeq(s, i, i + Len(t) - 1) = t

\* bytes.find, counted from 1; 0 when t does not occur in s
find(s, t) ==
    LET hits == {i \in 1..Len(s) : OccursAt(s, t, i)}
    IN  IF hits = {} THEN 0 ELSE CHOOSE i \in hits : \A j \in hits : i <= j

\* bytes.split(t)
RECURSIVE split(_, _)
split(s, t) ==
    LET i == find(s, t)
    IN  IF i = 0 THEN <<s>>
        ELSE <<SubSeq(s, 1, i - 1)>> \o split(SubSeq(s, i + Len(t), Len(s)), t)

RECURSIVE lstrip(_)
lstrip(s) == IF s # <<>> /\ Head(s) \in Whitespace THEN lstrip(Tail(s)) ELSE s

RECURSIVE rstrip(_)
rstrip(s) ==
    IF s # <<>> /\ s[Len(s)] \in Whitespace
    THEN rstrip(SubSeq(s, 1, Len(s) - 1))
    ELSE s

\* bytes.strip() and str.strip()
strip(s) == rstrip(lstrip(s))

Decodable(byte) == byte # "xFF"

\* bytes.decode(errors="ignore")
decode(body) == SelectSeq(body, Decodable)

\* people_subscriber.py 201-218; the empty text stands for None as well,
\* line 193 tells neither from a body
_extract_body(raw_part) ==
    LET i == find(raw_part, CRLF \o CRLF)
        body == strip(SubSeq(raw_part, i + 4, Len(raw_part)))
        n == Len(body)
    IN  IF strip(raw_part) = <<>> THEN <<>>
        ELSE IF i = 0 THEN <<>>
        ELSE IF n >= 2 /\ SubSeq(body, n - 1, n) = <<"-", "-">>
             THEN decode(SubSeq(body, 1, n - 2))
             ELSE decode(body)

\* people_subscriber.py 185 with the buffer dropped at every chunk
KeepLatestChunk(buf, chunk) == chunk

\* people_subscriber.py 185
Accumulate(buf, chunk) == buf \o chunk

\* people_subscriber.py 188-191: the parts before the last one, each with the
\* offset in the stream at which it starts (history)
RECURSIVE Placed(_, _, _)
Placed(pieces, at, sep) ==
    IF Len(pieces) <= 1 THEN <<>>
    ELSE <<[raw |-> Head(pieces), at |-> at]>>
             \o Placed(Tail(pieces), at + Len(Head(pieces)) + Len(sep), sep)

\* a chunk that ends after byte p ends inside a delimiter
Torn(p) ==
    \E i \in 1..Len(stream) :
        /\ OccursAt(stream, Delimiter, i)
        /\ i <= p
        /\ p < i + Len(Delimiter) - 1

\* people_subscriber.py 123-125, 137-139 with the handler call not awaited
TakesNextAtOnce(block) == TRUE

\* people_subscriber.py 95, 123-125, 137-139: the loop asks the reader for
\* the next block only when it is not awaiting a handler
TakesNext(block) == block = None

\* people_subscriber.py 184-190, 195-198: the reader receives a chunk
ReadChunk ==
    /\ TakesNext(consuming)
    /\ parts = <<>>
    /\ unread # <<>>
    /\ \E n \in 1..Len(unread) :
        LET chunk == SubSeq(unread, 1, n)
            at == Len(stream) - Len(unread) - Len(buffer)
            joined == Accumulate(buffer, chunk)
            pieces == split(joined, boundary)
        IN  /\ unread' = SubSeq(unread, n + 1, Len(unread))
            /\ delivery' = [delivery EXCEPT
                   !.chunks = IF @ < 2 THEN @ + 1 ELSE @,
                   !.torn = @ \/ Torn(Len(stream) - Len(unread) + n)]
            /\ IF boundary # <<>> /\ find(joined, boundary) # 0
               THEN /\ buffer' = pieces[Len(pieces)]
                    /\ parts' = Placed(pieces, at + 1, boundary)
               ELSE /\ buffer' = joined
                    /\ parts' = <<>>
    /\ UNCHANGED <<stream, boundary, yielded, consuming, calls>>
    /\ UNCHANGED <<engine_vars, async_vars, poll_vars, sup_vars, stream_vars,
                   sink_vars, fetch_vars, config_vars,
                   block_vars, cycle_vars>>

\* people_subscriber.py 98-101
Heartbeat == <<"H">>

\* people_subscriber.py 104, 221-237: the dictionary of a block's text; a
\* text without a key=value line gives the empty dictionary
Parsed(text) ==
    IF text = <<"N">> THEN NumberStatBlock("1", "0")
    ELSE IF text = <<"M">>
         THEN ("summary.RuleName" :> "ManNumDetection")
                  @@ ("summary.InsideSubtotal.Total" :> "1")
         ELSE <<>>

\* people_subscriber.py 96-143: the loop body calls a handler for the block
Handled(block) ==
    /\ strip(block) # <<>>
    /\ strip(block) # Heartbeat
    /\ Dispatch(Parsed(strip(block))).do \in {"totals", "inside"}

\* people_subscriber.py 191-193: a part without a body is passed over
PassPart ==
    /\ TakesNext(consuming)
    /\ parts # <<>>
    /\ _extract_body(Head(parts).raw) = <<>>
    /\ parts' = Tail(parts)
    /\ UNCHANGED <<stream, delivery, boundary, unread, buffer, yielded,
                   consuming, calls>>
    /\ UNCHANGED <<engine_vars, async_vars, poll_vars, sup_vars, stream_vars,
                   sink_vars, fetch_vars, config_vars,
                   block_vars, cycle_vars>>

\* people_subscriber.py 194, 96-101, 115-120, 142-143: the body is yielded
\* and the loop body continues without a handler call
YieldIgnored ==
    /\ TakesNext(consuming)
    /\ parts # <<>>
    /\ LET body == _extract_body(Head(parts).raw)
       IN  /\ body # <<>>
           /\ ~Handled(body)
           /\ yielded' = Append(yielded, body)
    /\ parts' = Tail(parts)
    /\ UNCHANGED <<stream, delivery, boundary, unread, buffer, consuming, calls>>
    /\ UNCHANGED <<engine_vars, async_vars, poll_vars, sup_vars, stream_vars,
                   sink_vars, fetch_vars, config_vars,
                   block_vars, cycle_vars>>

\* people_subscriber.py 194, 108-125, 128-139: the body is yielded and the
\* loop body awaits the handler call for it
YieldHandled ==
    /\ TakesNext(consuming)
    /\ parts # <<>>
    /\ LET body == _extract_body(Head(parts).raw)
       IN  /\ body # <<>>
           /\ Handled(body)
           /\ yielded' = Append(yielded, body)
           /\ consuming' = [block |-> body, at |-> Head(parts).at]
           /\ calls' = Append(calls, [ev |-> "start", at |-> Head(parts).at])
    /\ parts' = Tail(parts)
    /\ UNCHANGED <<stream, delivery, boundary, unread, buffer>>
    /\ UNCHANGED <<engine_vars, async_vars, poll_vars, sup_vars, stream_vars,
                   sink_vars, fetch_vars, config_vars,
                   block_vars, cycle_vars>>

\* people_subscriber.py 123-125, 137-139, 144-150: the handler call returns
\* or raises, and the loop goes on to the next block
HandlerDone ==
    /\ consuming # None
    /\ calls' = Append(calls, [ev |-> "end", at |-> consuming.at])
    /\ consuming' = None
    /\ UNCHANGED <<stream, delivery, boundary, unread, buffer, parts, yielded>>
    /\ UNCHANGED <<engine_vars, async_vars, poll_vars, sup_vars, stream_vars,
                   sink_vars, fetch_vars, config_vars,
                   block_vars, cycle_vars>>

\* people_subscriber.py 88-95, 183: the response has arrived with its headers
InitWire ==
    /\ EngineInit
    /\ AsyncIdle
    /\ PollIdle
    /\ SupIdle
    /\ StreamIdle
    /\ SinkIdle
    /\ FetchIdle
    /\ ConfigIdle
    /\ BlockIdle
    /\ CycleIdle
    /\ \E bodies \in BodySeqs, framing \in Framings,
          content_type \in DOMAIN BoundaryOf :
        /\ delivery = [bodies |-> bodies, framing |-> framing,
                       known |-> BoundaryOf[content_type] # <<>>,
                       chunks |-> 0, torn |-> FALSE]
        /\ stream = Frame(bodies, framing)
        /\ boundary = BoundaryOf[content_type]
    /\ unread = stream
    /\ buffer = <<>>
    /\ parts = <<>>
    /\ yielded = <<>>
    /\ consuming = None
    /\ calls = <<>>

NextWire ==
    \/ ReadChunk
    \/ PassPart
    \/ YieldIgnored
    \/ YieldHandled
    \/ HandlerDone

SpecWire == InitWire /\ [][NextWire]_vars

-----------------------------------------------------------------------------
(* One call of fetch_camera_summary: the getSummary requests of one device  *)
(* in one poll cycle                                                        *)

\* camera_sync.py 64-67 in the opposite order
params_list_unfiltered_first ==
    << [action |-> "getSummary", channel |-> "1"],
       [action |-> "getSummary", channel |-> "1", name |-> "PC-1"] >>

\* camera_sync.py 64-67
params_list ==
    << [action |-> "getSummary", channel |-> "1", name |-> "PC-1"],
       [action |-> "getSummary", channel |-> "1"] >>

\* the values a reply carries for a Today field: none, an empty one, a
\* number, a text that is no number
TodayValues == {"None", "", "1", "abc"}

\* the values a reply carries for a Total field
TotalValues == {"None", "0"}

Field(key, value) == IF value = "None" THEN <<>> ELSE key :> value

\* the dictionaries _parse_key_value returns for the replies of the model
SampleFields ==
    { Field("summary.EnteredSubtotal.Today", et)
        @@ Field("summary.EnteredSubtotal.Total", eT)
        @@ Field("summary.ExitedSubtotal.Today", xt)
        @@ Field("summary.ExitedSubtotal.Total", xT) :
      et \in TodayValues, eT \in TotalValues,
      xt \in TodayValues, xT \in TotalValues }

\* Python's `a or b` on the values of dict.get
or(a, b) == IF a \in {"None", ""} THEN b ELSE a

\* camera_sync.py 25-41
_extract_from_fields(fields) ==
    LET entered == or(get(fields, "summary.EnteredSubtotal.Today"),
                      get(fields, "summary.EnteredSubtotal.Total"))
        exited == or(get(fields, "summary.ExitedSubtotal.Today"),
                     get(fields, "summary.ExitedSubtotal.Total"))
    IN  IF entered = "None" \/ exited = "None" THEN None
        ELSE IF ~Converts(entered) \/ ~Converts(exited) THEN None
        ELSE [entered |-> int[entered], exited |-> int[exited]]

Pending == [pending |-> TRUE]

\* camera_sync.py 69: the loop takes the next element of params_list
Requesting ==
    /\ fetched = Pending
    /\ Len(requests) < Len(params_list)

\* camera_sync.py 70-79: the request raises, a connection error or an HTTP
\* error status
RequestFails ==
    /\ Requesting
    /\ requests' = Append(requests, [params |-> params_list[Len(requests) + 1],
                                     failed |-> TRUE, fields |-> <<>>])
    /\ UNCHANGED fetched
    /\ UNCHANGED <<engine_vars, async_vars, poll_vars, sup_vars, stream_vars,
                   sink_vars, wire_vars, config_vars,
                   block_vars, cycle_vars>>

\* camera_sync.py 70-92: the request is answered
RequestAnswered ==
    /\ Requesting
    /\ \E fields \in SampleFields :
        /\ requests' = Append(requests,
                              [params |-> params_list[Len(requests) + 1],
                               failed |-> FALSE, fields |-> fields])
        /\ fetched' = IF _extract_from_fields(fields) # None
                      THEN _extract_from_fields(fields)
                      ELSE fetched
    /\ UNCHANGED <<engine_vars, async_vars, poll_vars, sup_vars, stream_vars,
                   sink_vars, wire_vars, config_vars,
                   block_vars, cycle_vars>>

\* camera_sync.py 94
ReturnNone ==
    /\ fetched = Pending
    /\ Len(requests) = Len(params_list)
    /\ fetched' = None
    /\ UNCHANGED requests
    /\ UNCHANGED <<engine_vars, async_vars, poll_vars, sup_vars, stream_vars,
                   sink_vars, wire_vars, config_vars,
                   block_vars, cycle_vars>>

\* main.py 145-152, 163-170: camera_sync_loop calls fetch_camera_summary
InitFetch ==
    /\ EngineInit
    /\ AsyncIdle
    /\ PollIdle
    /\ SupIdle
    /\ StreamIdle
    /\ SinkIdle
    /\ WireIdle
    /\ ConfigIdle
    /\ BlockIdle
    /\ CycleIdle
    /\ requests = <<>>
    /\ fetched = Pending

NextFetch ==
    \/ RequestFails
    \/ RequestAnswered
    \/ ReturnNone

SpecFetch == InitFetch /\ [][NextFetch]_vars

-----------------------------------------------------------------------------
(* The camera configuration: the persisted settings read by                *)
(* load_admin_settings and laid over the static defaults by                *)
(* get_effective_camera_config                                             *)

\* Python values of two types in one dictionary
Str(s) == [str |-> s]
Num(n) == [int |-> n]

\* admin_settings.py 13-24, 93-107: of the keys, the model keeps one that is
\* no camera setting, one text setting and one port
SETTINGS_KEYS == {"admin_password", "camera_d4_host", "camera_d4_port"}

PortKeys == {"camera_d4_port"}

\* the values a persisted row holds
RowValues(key) ==
    IF key \in PortKeys
    THEN {Str(""), Str(" "), Str("0"), Str("1"), Str("abc")}
    ELSE {None, Str(""), Str(" "), Str("cam")}

Stores ==
    UNION { {row \in [keys -> UNION {RowValues(k) : k \in keys}] :
                \A k \in keys : row[k] \in RowValues(k)} :
            keys \in SUBSET SETTINGS_KEYS }

\* config.py 10-11, 37 and the environment that overrides them
Environments ==
    [camera_d4_host : {"172.16.170.35"}, camera_d4_port : {80, 8080},
     admin_password : {"admin"}]

\* str.strip() of the texts of the model is empty
Blank(s) == s \in {"", " "}

\* admin_settings.py 34-46
load_admin_settings(table) ==
    [key \in DOMAIN table |->
        IF key \in PortKeys
        THEN IF Converts(table[key].str) THEN Num(int[table[key].str])
             ELSE Num(80)
        ELSE table[key]]

\* admin_settings.py 113-118: the value is passed over
PassedOver(k, v) ==
    \/ v = None
    \/ "str" \in DOMAIN v /\ Blank(v.str)
    \/ k \in PortKeys /\ (v = Num(0) \/ v = Str("0"))

\* admin_settings.py 87-120
get_effective_camera_config(session_result, settings) ==
    LET out == [camera_d4_host |-> Str(settings.camera_d4_host),
                camera_d4_port |-> Num(settings.camera_d4_port)]
    IN  [k \in DOMAIN out |->
            IF k \in DOMAIN session_result /\ ~PassedOver(k, session_result[k])
            THEN session_result[k]
            ELSE out[k]]

\* main.py 73-74, 139-140, routes.py 87-88
LoadSettings ==
    /\ effective = Pending
    /\ effective' = [db_settings |-> load_admin_settings(store)]
    /\ UNCHANGED <<store, env, saved>>
    /\ UNCHANGED <<engine_vars, async_vars, poll_vars, sup_vars, stream_vars,
                   sink_vars, wire_vars, fetch_vars,
                   block_vars, cycle_vars>>

\* main.py 77, 141, routes.py 89
EffectiveConfig ==
    /\ DOMAIN effective = {"db_settings"}
    /\ effective' = [db_settings |-> effective.db_settings,
                     cfg |-> get_effective_camera_config(effective.db_settings,
                                                         env)]
    /\ UNCHANGED <<store, env, saved>>
    /\ UNCHANGED <<engine_vars, async_vars, poll_vars, sup_vars, stream_vars,
                   sink_vars, wire_vars, fetch_vars,
                   block_vars, cycle_vars>>

InitConfig ==
    /\ EngineInit
    /\ AsyncIdle
    /\ PollIdle
    /\ SupIdle
    /\ StreamIdle
    /\ SinkIdle
    /\ WireIdle
    /\ FetchIdle
    /\ BlockIdle
    /\ CycleIdle
    /\ store \in Stores
    /\ env \in Environments
    /\ effective = Pending
    /\ saved = [op |-> "none"]

NextConfig ==
    \/ LoadSettings
    \/ EffectiveConfig

SpecConfig == InitConfig /\ [][NextConfig]_vars

-----------------------------------------------------------------------------
(* The admin routes that write the persisted settings: PUT /settings and    *)
(* PUT /password both go through save_admin_settings                        *)

\* dict.get with no default
dict_get(data, key) == IF key \in DOMAIN data THEN data[key] ELSE None

\* admin_settings.py 49-55
_is_empty_value(val) ==
    \/ val = None
    \/ "str" \in DOMAIN val /\ Blank(val.str)

\* admin_settings.py 58-65
_should_use_env_default(key, val) ==
    \/ _is_empty_value(val)
    \/ key \in PortKeys /\ (val = Num(0) \/ val = Str("0"))

\* admin_settings.py 68-84: for every key of SETTINGS_KEYS the row is
\* deleted or written; an int is stored as its decimal text
save_admin_settings(table, data) ==
    LET deleted == {key \in SETTINGS_KEYS :
                        _should_use_env_default(key, dict_get(data, key))}
        written == SETTINGS_KEYS \ deleted
    IN  [key \in (DOMAIN table \ deleted) \cup written |->
            IF key \in written
            THEN IF "int" \in DOMAIN data[key]
                 THEN Str(ToString(data[key].int))
                 ELSE data[key]
            ELSE table[key]]

\* admin_settings.py 27-31
get_effective_admin_password(db_settings, settings) ==
    IF /\ db_settings # <<>>
       /\ dict_get(db_settings, "admin_password") \notin {None, Str("")}
    THEN db_settings["admin_password"].str
    ELSE settings.admin_password

\* admin_routes.py 33-42: the bodies PUT /settings accepts, as model_dump
\* returns them
SettingsBodies ==
    {[camera_d4_host |-> Str(host), camera_d4_port |-> Num(port)] :
        host \in {"", "cam"}, port \in {0, 1}}

\* admin_routes.py 137: new passwords of six characters or more
NewPasswords == {"secret", "hunter22"}

\* admin_routes.py 106-116, for an authenticated request
PutAdminSettings ==
    /\ \E body \in SettingsBodies :
          store' = save_admin_settings(store, body)
    /\ saved' = [op |-> "put_admin_settings", before |-> store]
    /\ UNCHANGED <<env, effective>>
    /\ UNCHANGED <<engine_vars, async_vars, poll_vars, sup_vars, stream_vars,
                   sink_vars, wire_vars, fetch_vars, block_vars, cycle_vars>>

\* admin_routes.py 124-143, for an authenticated request that carries the
\* current password
ChangeAdminPassword ==
    /\ \E new_password \in NewPasswords :
          store' = save_admin_settings(store,
                                       [admin_password |-> Str(new_password)])
    /\ saved' = [op |-> "change_admin_password", before |-> store]
    /\ UNCHANGED <<env, effective>>
    /\ UNCHANGED <<engine_vars, async_vars, poll_vars, sup_vars, stream_vars,
                   sink_vars, wire_vars, fetch_vars, block_vars, cycle_vars>>

NextAdmin ==
    \/ PutAdminSettings
    \/ ChangeAdminPassword

SpecAdmin == InitConfig /\ [][NextAdmin]_vars

-----------------------------------------------------------------------------
(* One text on both ingestion paths: as a block of the attach stream it     *)
(* goes through the loop body of _run_source, as the reply to getSummary    *)
(* through _parse_key_value and _extract_from_fields                        *)

\* A text is a sequence of pieces: "CR", "LF", " " and "=" are single
\* characters, every other piece is a run of characters with none of these
\* four in it.

\* a text has at most MaxLines lines
MaxLines == 3

camera_d6_attach_channel == 1

\* main.py 97-116: the sources of the subscriber
Sources ==
    {[name |-> "D4", logical_channel |-> camera_d4_channel,
      attach_channel |-> camera_d4_attach_channel],
     [name |-> "D6", logical_channel |-> camera_d6_channel,
      attach_channel |-> camera_d6_attach_channel]}

LineBreaks == {<<"LF">>, <<"CR", "LF">>}

SampleLines ==
    { <<>>,
      <<" ">>,
      <<"Heartbeat">>,
      <<"summary.RuleName", "=", "NumberStat">>,
      <<" ", "summary.RuleName", " ", "=", " ", "ManNumDetection", " ">>,
      <<"summary.RuleName", "=", "CrossLineDetection">>,
      <<"summary.EnteredSubtotal.Today", "=", "1">>,
      <<"summary.EnteredSubtotal.Today", "=", "abc">>,
      <<"summary.ExitedSubtotal.Today", "=", "0">>,
      <<"summary.ExitedSubtotal.Today", "=", "0", "=", "1">>,
      <<"summary.ExitedSubtotal.Today", "=">>,
      <<"summary.EnteredSubtotal.Total", "=", "1">>,
      <<"summary.ExitedSubtotal.Total", "=", "0">>,
      <<"summary.InsideSubtotal.Total", "=", "1">>,
      <<"summary.InsideSubtotal.Total", "=", "x">> }

LineSeqs == UNION {[1..n -> SampleLines] : n \in 0..MaxLines}

Texts == {join(brk, ls) : brk \in LineBreaks, ls \in LineSeqs}

\* the string the pieces of a line spell
RECURSIVE Concat(_)
Concat(pieces) ==
    IF pieces = <<>> THEN "" ELSE Head(pieces) \o Concat(Tail(pieces))

\* str.splitlines(): a line ends at CR LF, at LF or at CR, and no empty line
\* follows the last line break
RECURSIVE splitlines(_)
splitlines(s) ==
    LET ends == {i \in 1..Len(s) : s[i] \in {"CR", "LF"}}
        i == CHOOSE e \in ends : \A f \in ends : e <= f
        j == IF s[i] = "CR" /\ i < Len(s) /\ s[i + 1] = "LF" THEN i + 2 ELSE i + 1
    IN  IF s = <<>> THEN <<>>
        ELSE IF ends = {} THEN <<s>>
        ELSE <<SubSeq(s, 1, i - 1)>> \o splitlines(SubSeq(s, j, Len(s)))

\* people_subscriber.py 236 with a key's first value kept
setdefault(dict, key, value) == dict @@ (key :> value)

\* people_subscriber.py 236, camera_sync.py 21: result[key] = value
setitem(dict, key, value) == (key :> value) @@ dict

\* people_subscriber.py 231-236, camera_sync.py 16-21: the loop over the lines
RECURSIVE ParseLines(_, _)
ParseLines(lines, dict) ==
    IF lines = <<>> THEN dict
    ELSE LET line == strip(Head(lines))
             i == find(line, <<"=">>)
             key == SubSeq(line, 1, i - 1)
             value == SubSeq(line, i + 1, Len(line))
         IN  IF line = <<>> \/ i = 0
             THEN ParseLines(Tail(lines), dict)
             ELSE ParseLines(Tail(lines),
                             setitem(dict, Concat(strip(key)),
                                     Concat(strip(value))))

\* people_subscriber.py 221-237
_parse_key_value_block(txt) == ParseLines(splitlines(txt), <<>>)

\* camera_sync.py 13-22
_parse_key_value(txt) == ParseLines(splitlines(txt), <<>>)

\* people_subscriber.py 96-143: what the loop body does with a block
LoopBody(block) ==
    IF block = <<>> THEN [do |-> "continue"]
    ELSE IF strip(block) = <<"Heartbeat">> THEN [do |-> "continue"]
    ELSE Dispatch(_parse_key_value_block(strip(block)))

\* people_subscriber.py 95-150, main.py 79-94: the loop body runs on the
\* block and awaits the handler it calls
StreamBlock ==
    /\ read.stream = Pending
    /\ LET todo == LoopBody(payload)
       IN  CASE todo.do = "totals" ->
                  /\ HandleRawTotals(source.logical_channel, todo.entered,
                                     todo.exited)
                  /\ read' = [read EXCEPT !.stream =
                                 [do |-> "totals",
                                  api_channel |-> source.logical_channel,
                                  entered |-> todo.entered,
                                  exited |-> todo.exited]]
             [] todo.do = "inside" ->
                  /\ HandleInsideTotal(source.logical_channel, todo.inside)
                  /\ read' = [read EXCEPT !.stream =
                                 [do |-> "inside",
                                  api_channel |-> source.logical_channel,
                                  inside |-> todo.inside]]
             [] OTHER ->
                  /\ read' = [read EXCEPT !.stream = todo]
                  /\ UNCHANGED engine_vars
    /\ UNCHANGED <<payload, source>>
    /\ UNCHANGED <<async_vars, poll_vars, sup_vars, stream_vars, sink_vars,
                   wire_vars, fetch_vars, config_vars, cycle_vars>>

\* camera_sync.py 81-84, main.py 153-158, 171-176: the reply is parsed and a
\* usable result reaches totals_handler
PollReply ==
    /\ read.poll = Pending
    /\ LET data == _extract_from_fields(_parse_key_value(payload))
       IN  IF data = None
           THEN /\ read' = [read EXCEPT !.poll = [do |-> "continue"]]
                /\ UNCHANGED engine_vars
           ELSE /\ HandleRawTotals(source.logical_channel, data.entered,
                                   data.exited)
                /\ read' = [read EXCEPT !.poll =
                               [do |-> "totals",
                                api_channel |-> source.logical_channel,
                                entered |-> data.entered,
                                exited |-> data.exited]]
    /\ UNCHANGED <<payload, source>>
    /\ UNCHANGED <<async_vars, poll_vars, sup_vars, stream_vars, sink_vars,
                   wire_vars, fetch_vars, config_vars, cycle_vars>>

InitBlock ==
    /\ EngineInit
    /\ AsyncIdle
    /\ PollIdle
    /\ SupIdle
    /\ StreamIdle
    /\ SinkIdle
    /\ WireIdle
    /\ FetchIdle
    /\ ConfigIdle
    /\ CycleIdle
    /\ payload \in Texts
    /\ source \in Sources
    /\ read = [stream |-> Pending, poll |-> Pending]

NextBlock ==
    \/ StreamBlock
    \/ PollReply

SpecBlock == InitBlock /\ [][NextBlock]_vars

-----------------------------------------------------------------------------
(* camera_sync_loop: one pass of its loop after the other.  Each pass loads *)
(* the settings, polls D4 and applies its summary, then polls D6 and        *)
(* applies its summary, all inside one try block, and sleeps                *)

NewCycle ==
    [at |-> "load", data |-> None, polled |-> {}, unanswered |-> {},
     usable |-> {}, applied |-> {}, failed |-> "none"]

\* main.py 182-185: the except clause logs, the loop sleeps
CycleRaised(where) == [cycle EXCEPT !.at = "sleep", !.failed = where]

\* the statement after the ones for device d
AfterDevice(d) == IF d = "D4" THEN "fetch D6" ELSE "sleep"

\* main.py 139-142: the settings are loaded inside get_session, which raises
\* again what the session raises (db.py 44-46)
CycleLoad ==
    /\ cycle.at = "load"
    /\ \/ cycle' = [cycle EXCEPT !.at = "fetch D4"]
       \/ cycle' = CycleRaised("load")
    /\ UNCHANGED <<engine_vars, async_vars, poll_vars, sup_vars, stream_vars,
                   sink_vars, wire_vars, fetch_vars, config_vars, block_vars>>

\* main.py 145-153, 163-171: fetch_camera_summary returns None when its
\* requests fail or carry no usable fields (camera_sync.py 74-79, 94), and
\* the totals of the reply otherwise
CycleFetch(d) ==
    /\ cycle.at = "fetch " \o d
    /\ \/ \E why \in {"failed", "unusable"} :
            cycle' = [cycle EXCEPT
                         !.at = AfterDevice(d),
                         !.polled = @ \cup {d},
                         !.unanswered = IF why = "failed" THEN @ \cup {d} ELSE @]
       \/ \E entered \in Counts, exited \in Counts :
            cycle' = [cycle EXCEPT
                         !.at = "apply " \o d,
                         !.data = [entered |-> entered, exited |-> exited],
                         !.polled = @ \cup {d},
                         !.usable = @ \cup {d}]
    /\ UNCHANGED <<engine_vars, async_vars, poll_vars, sup_vars, stream_vars,
                   sink_vars, wire_vars, fetch_vars, config_vars, block_vars>>

\* main.py 154-160, 172-178 around main.py 79-86 and services.py 79-143:
\* totals_handler runs handle_raw_totals inside get_session; when the sink
\* fails at the query or at the commit the exception leaves the try block
\* of the loop.  The summary has no inside key, so lines 159 and 177 call
\* nothing.
CycleApply(d) ==
    /\ cycle.at = "apply " \o d
    /\ \E fault \in SinkFaults :
        LET api_channel == LogicalChannel(d)
            state == channels[api_channel]
            queried == \/ Delta(cycle.data.entered, state.last_entered) > 0
                       \/ Delta(cycle.data.exited, state.last_exited) > 0
            raised == queried /\ fault \in {"query", "commit"}
        IN  IF raised
            THEN /\ channels' = KeptInMemory(channels,
                                    StoreTotals(channels, api_channel,
                                                cycle.data.entered,
                                                cycle.data.exited))
                 /\ UNCHANGED <<occupancy_offset, applied, last>>
                 /\ cycle' = [CycleRaised(d) EXCEPT !.data = None]
            ELSE /\ HandleRawTotals(api_channel, cycle.data.entered,
                                    cycle.data.exited)
                 /\ cycle' = [cycle EXCEPT !.at = AfterDevice(d),
                                           !.data = None,
                                           !.applied = @ \cup {d}]
    /\ UNCHANGED <<async_vars, poll_vars, sup_vars, stream_vars, sink_vars,
                   wire_vars, fetch_vars, config_vars, block_vars>>

\* main.py 185, 137: the sleep is over and the next pass begins
CycleSleep ==
    /\ cycle.at = "sleep"
    /\ cycle' = NewCycle
    /\ UNCHANGED <<engine_vars, async_vars, poll_vars, sup_vars, stream_vars,
                   sink_vars, wire_vars, fetch_vars, config_vars, block_vars>>

\* main.py 189: the task is created
InitCycle ==
    /\ EngineInit
    /\ AsyncIdle
    /\ PollIdle
    /\ SupIdle
    /\ StreamIdle
    /\ SinkIdle
    /\ WireIdle
    /\ FetchIdle
    /\ ConfigIdle
    /\ BlockIdle
    /\ cycle = NewCycle

NextCycle ==
    \/ CycleLoad
    \/ \E d \in Devices : CycleFetch(d)
    \/ \E d \in Devices : CycleApply(d)
    \/ CycleSleep

SpecCycle == InitCycle /\ [][NextCycle]_vars

-----------------------------------------------------------------------------
(* Properties of the engine, checked under Spec *)

\* the totals stored before a call: those of the snapshot applied before it,
\* or the zeros of a fresh ChannelState
TotalsBefore(call) == IF call.before = <<>> THEN <<0, 0>> ELSE call.before

AppliedTotals == last.op = "handle_raw_totals" /\ ~last.ignored

RowsOf(rows, direction) == {i \in DOMAIN rows : rows[i].direction = direction}

\* C1: after any sequence of snapshots applied to a configured channel, the
\* stored last_entered / last_exited are the totals of the snapshot applied
\* most recently to it, also after a snapshot lower than the one before it.
C1_LastTotalsAreLatestSnapshot ==
    \A ch \in DOMAIN channels :
        applied[ch] # <<>> => StoredTotals(ch) = applied[ch]

\* a lower snapshot has just been applied after a higher one
C1_Witness ==
    /\ AppliedTotals
    /\ last.before # <<>>
    /\ last.entered_total < last.before[1]
    /\ StoredTotals(last.api_channel) = <<last.entered_total, last.exited_total>>

\* C2: for consecutive snapshots (e0,x0) then (e1,x1) of one channel the call
\* records one ENTRATA row of delta max(0, e1-e0) exactly when that is
\* positive and one USCITA row of delta max(0, x1-x0) exactly when that is
\* positive; every row has delta > 0; no row when both are zero.
C2_EventsAreClampedDeltas ==
    AppliedTotals =>
        LET e0 == TotalsBefore(last)[1]
            x0 == TotalsBefore(last)[2]
            de == Max(0, last.entered_total - e0)
            dx == Max(0, last.exited_total - x0)
            rows == last.rows
        IN  /\ Cardinality(RowsOf(rows, "ENTRATA")) = IF de > 0 THEN 1 ELSE 0
            /\ Cardinality(RowsOf(rows, "USCITA")) = IF dx > 0 THEN 1 ELSE 0
            /\ \A i \in RowsOf(rows, "ENTRATA") : rows[i].delta = de
            /\ \A i \in RowsOf(rows, "USCITA") : rows[i].delta = dx
            /\ \A i \in DOMAIN rows :
                   /\ rows[i].delta > 0
                   /\ rows[i].direction \in {"ENTRATA", "USCITA"}
            /\ (de = 0 /\ dx = 0) => rows = <<>>

\* entries rose while the exit counter fell: one ENTRATA row, no USCITA row
C2_Witness ==
    /\ AppliedTotals
    /\ last.before # <<>>
    /\ last.entered_total > last.before[1]
    /\ last.exited_total < last.before[2]
    /\ Len(last.rows) = 1
    /\ last.rows[1].direction = "ENTRATA"

\* C3: right after set_occupancy(T), for every integer T, the total of
\* get_presence_snapshot is T.
C3_SetThenSnapshotIsTarget ==
    last.op = "set_occupancy" => Total = last.target_occupancy

\* a negative target set from a state with another total and a non-zero offset
C3_Witness ==
    /\ last.op = "set_occupancy"
    /\ last.via = "set_occupancy"
    /\ last.target_occupancy < 0
    /\ ~last.at_target
    /\ ~last.same_offset
    /\ occupancy_offset # last.target_occupancy

\* C4: set_occupancy with the current total as its target changes no offset
\* and adds no ResetLog row.
C4_SetToCurrentTotalIsNoOp ==
    (last.op = "set_occupancy" /\ last.at_target) =>
        /\ last.same_offset
        /\ last.audit = <<>>

\* the target was the current total, reached with a non-zero offset
C4_Witness ==
    /\ last.op = "set_occupancy"
    /\ last.at_target
    /\ occupancy_offset # 0
    /\ last.target_occupancy # 0

\* C5: a snapshot equal to the one applied just before it to the same channel
\* computes zero deltas, records no row and leaves the channel state, the
\* offset and the total as they were.
C5_SameSnapshotTwiceIsIdempotent ==
    (AppliedTotals /\ last.before = <<last.entered_total, last.exited_total>>) =>
        /\ last.delta_enter = 0
        /\ last.delta_exit = 0
        /\ last.rows = <<>>
        /\ last.same_state
        /\ last.same_total

\* the same non-zero snapshot has been applied twice
C5_Witness ==
    /\ AppliedTotals
    /\ last.before = <<last.entered_total, last.exited_total>>
    /\ last.entered_total > 0
    /\ last.exited_total > 0

\* C6: reset_occupancy from a non-zero total leaves the total 0 and adds one
\* ResetLog row whose reason is "<reason>: 0"; it acts as set_occupancy does
\* for target 0 and that reason.
C6_ResetIsSetToZero ==
    (last.op = "set_occupancy" /\ last.via = "reset_occupancy") =>
        /\ last.target_occupancy = 0
        /\ Total = 0
        /\ ~last.at_target =>
               /\ Len(last.audit) = 1
               /\ last.audit[1].reason = last.reason \o ": 0"
               /\ last.reason = "SCHEDULED_RESET"
                      => last.audit[1].reason = "SCHEDULED_RESET: 0"
        /\ last.at_target => last.audit = <<>>

\* the scheduled reset has run from a non-zero total
C6_Witness ==
    /\ last.op = "set_occupancy"
    /\ last.via = "reset_occupancy"
    /\ last.reason = "SCHEDULED_RESET"
    /\ ~last.at_target
    /\ occupancy_offset # 0
    /\ Len(last.audit) = 1

\* C20: a counter or gauge snapshot for a channel that has no ChannelState
\* is ignored: the set of channels, every channel's counters and gauge, the
\* offset and the total stay as they are, and no event is recorded.
C20_UnconfiguredChannelIsIgnored ==
    [][(/\ last'.op \in {"handle_raw_totals", "handle_inside_total"}
        /\ last'.api_channel \notin DOMAIN channels) =>
            /\ last'.ignored
            /\ DOMAIN channels' = DOMAIN channels
            /\ UNCHANGED <<channels, occupancy_offset, applied>>
            /\ Total' = Total]_vars

\* totals for the unconfigured channel 1 have just been ignored in a state
\* with counters, gauge and offset off their initial values
C20_Witness ==
    /\ last.op = "handle_raw_totals"
    /\ last.ignored
    /\ last.api_channel = camera_d4_attach_channel
    /\ channels[camera_d4_channel].last_entered > 0
    /\ channels[camera_d4_channel].inside_total > 0
    /\ occupancy_offset # 0

\* C22: in every state of the engine the per-camera values of
\* get_presence_snapshot add up to its presenti_totali, also when the offset
\* is negative.
C22_PerCameraValuesSumToTotal ==
    LET snapshot == get_presence_snapshot(channels, occupancy_offset)
    IN  snapshot.per_camera[1].presenti + snapshot.per_camera[2].presenti
            = snapshot.presenti_totali

\* a negative offset while both cameras have a value of their own
C22_Witness ==
    LET snapshot == get_presence_snapshot(channels, occupancy_offset)
    IN  /\ occupancy_offset < 0
        /\ snapshot.per_camera[2].presenti # 0
        /\ snapshot.per_camera[1].presenti # occupancy_offset
        /\ channels[camera_d4_channel].inside_total > 0

\* the entries less the exits of the rows a call recorded
RECURSIVE NetFlow(_)
NetFlow(rows) ==
    IF rows = <<>> THEN 0
    ELSE (IF Head(rows).direction = "ENTRATA" THEN Head(rows).delta
          ELSE 0 - Head(rows).delta)
         + NetFlow(Tail(rows))

\* C28: an applied snapshot moves the total of get_presence_snapshot by the
\* ENTRY delta less the EXIT delta of the rows it records; a snapshot lower
\* than the stored totals records no row and leaves the total where it was.
C28_TotalMovesByRecordedFlow ==
    AppliedTotals => last.total_change = NetFlow(last.rows)

\* C29: a step of set_occupancy(T) adds T less the total computed before it
\* to occupancy_offset and leaves every channel's last_entered, last_exited
\* and inside_total as they were; after corrections made in a row, with no
\* other engine call between them, the offset is the offset before the first
\* of them plus the latest target less the total before the first of them.
C29_CorrectionAddsDifferenceOnly ==
    [][last'.op = "set_occupancy" =>
          /\ occupancy_offset'
                 = occupancy_offset + (last'.target_occupancy - Total)
          /\ channels' = channels
          /\ occupancy_offset'
                 = last'.since.base + last'.target_occupancy]_vars

\* the second of two corrections in a row, to a target other than the total
\* before it, the first of them made while the offset was not zero
C29_Witness ==
    /\ last.op = "set_occupancy"
    /\ last.since.corrections = 2
    /\ ~last.since.from_zero
    /\ ~last.same_offset
    /\ channels[camera_d6_channel].last_entered > 0

\* C30: a step of handle_raw_totals, handle_inside_total,
\* get_presence_snapshot or get_debug_state leaves occupancy_offset as it
\* was, so that only set_occupancy and reset_occupancy change it, and a step
\* of one of the two read queries leaves the channels unchanged as well.
C30_OnlyCorrectionsMoveTheOffset ==
    [][/\ last'.op # "set_occupancy" => occupancy_offset' = occupancy_offset
       /\ last'.op \in {"get_presence_snapshot", "get_debug_state"}
              => (channels' = channels /\ occupancy_offset' = occupancy_offset)]_vars

\* a read query answered while the offset is negative and both handlers
\* have been applied
C30_Witness ==
    /\ last.op \in {"get_presence_snapshot", "get_debug_state"}
    /\ occupancy_offset < 0
    /\ channels[camera_d4_channel].inside_total > 0
    /\ applied[camera_d6_channel] # <<>>

\* C31: a call of handle_inside_total on a configured channel sets that
\* channel's inside_total to max(0, value) and changes nothing else: the
\* stored counters, the offset and the other channel stay as they were and
\* no row is recorded; a call on an unconfigured channel changes nothing.
\* So inside_total is never negative on any channel.
C31_GaugeIsClampedOverwrite ==
    /\ [][last'.op = "handle_inside_total" =>
            /\ channels' = IF last'.ignored THEN channels
                           ELSE [channels EXCEPT ![last'.api_channel].inside_total =
                                                    Max(0, last'.inside_total)]
            /\ occupancy_offset' = occupancy_offset
            /\ last'.rows = <<>>]_vars
    /\ [](\A ch \in DOMAIN channels : channels[ch].inside_total >= 0)

\* a negative reading has been stored as 0 on D4, whose counters and the
\* offset hold other values
C31_Witness ==
    /\ last.op = "handle_inside_total"
    /\ ~last.ignored
    /\ last.api_channel = camera_d4_channel
    /\ last.inside_total < 0
    /\ channels[camera_d4_channel].inside_total = 0
    /\ channels[camera_d4_channel].last_entered = 1
    /\ channels[camera_d6_channel].inside_total = 0
    /\ channels[camera_d6_channel].last_exited = 1
    /\ occupancy_offset # 0

\* C33: in every state the total of get_presence_snapshot is the gauge of
\* D4 plus entered less exited of D4 plus entered less exited of D6 plus the
\* offset, and that is the presenti_totali a call returns.
C33_TotalIsGaugePlusFlowsPlusOffset ==
    LET combination == channels[camera_d4_channel].inside_total
                       + (channels[camera_d4_channel].last_entered
                          - channels[camera_d4_channel].last_exited)
                       + (channels[camera_d6_channel].last_entered
                          - channels[camera_d6_channel].last_exited)
                       + occupancy_offset
    IN  /\ Total = combination
        /\ last.op = "get_presence_snapshot" =>
               last.returned.presenti_totali = combination

\* a snapshot has been returned while both gauges, a counter of each channel
\* and the offset hold values other than zero
C33_Witness ==
    /\ last.op = "get_presence_snapshot"
    /\ channels[camera_d4_channel].inside_total = 1
    /\ channels[camera_d6_channel].inside_total = 1
    /\ channels[camera_d4_channel].last_entered = 1
    /\ channels[camera_d6_channel].last_exited = 1
    /\ occupancy_offset # 0
    /\ last.returned.presenti_totali = 0

-----------------------------------------------------------------------------
(* Properties of the engine under the tasks, checked under SpecAsync *)

InEngine(t) == pc[t] # "idle"

\* C7: the engine operations run under one critical section: no operation of
\* one task begins while an operation another task started has not returned.
C7_OneEngineOperationAtATime ==
    Cardinality({t \in Tasks : InEngine(t)}) <= 1

\* C8: a handle_raw_totals call overwrites exactly the totals it read: when it
\* is about to write, the stored last_entered / last_exited of its channel
\* are still the previous values it computes its deltas against.
C8_DeltasAgainstOverwrittenTotals ==
    \A t \in Tasks :
        pc[t] = "hrt_write" =>
            /\ frame[t].prev_entered = channels[frame[t].api_channel].last_entered
            /\ frame[t].prev_exited = channels[frame[t].api_channel].last_exited

\* a call is about to overwrite non-zero totals of a channel while another
\* task's call on the same channel is suspended in its await
C8_Witness ==
    \E t \in Tasks, u \in Tasks :
        /\ t # u
        /\ pc[t] = "hrt_write"
        /\ pc[u] = "hrt_query"
        /\ frame[u].api_channel = frame[t].api_channel
        /\ frame[t].prev_entered > 0
        /\ frame[t].entered_total < frame[t].prev_entered

-----------------------------------------------------------------------------
(* The stamp of the recorded rows, checked under SpecStamp *)

\* C27: the rows a snapshot records carry, as occupancy_after, the total of
\* the state that the snapshot's own counter update produced.
C27_StampIsTotalAfterOwnUpdate ==
    \A t \in StampTasks :
        "occupancy_after" \in DOMAIN stamp[t]
            => stamp[t].occupancy_after = stamp[t].after_update

-----------------------------------------------------------------------------
(* Stream and poller on one device, checked under SpecPoll *)

\* C9: for a device whose counters never decrease, however the stream's and
\* the poller's snapshots interleave, the ENTRATA deltas recorded sum to the
\* highest entered total applied minus the initial 0, and likewise for
\* USCITA: no crossing is recorded twice.
C9_NoCrossingRecordedTwice ==
    /\ recorded.entered = highest.entered - 0
    /\ recorded.exited = highest.exited - 0

-----------------------------------------------------------------------------
(* The supervisor, checked under SpecSup *)

\* C10: a supervisor that enters STREAMING has its backoff reset to 1, so the
\* first failure after a successful connection waits 1 time unit.
C10_BackoffIsFloorWhileStreaming ==
    \A d \in Devices : sup_state[d] = "STREAMING" => backoff[d] = 1

\* the waits the k-th failure in a row is to make
ExpectedWait(k) == IF k <= 6 THEN <<1, 2, 4, 8, 16, 32>>[k] ELSE 60

C12_ReconnectOnlyAfterBackoff ==
    \A d \in Devices :
        sup_state[d] = "CONNECTING" => came_from[d] \in {"START", "BACKOFF"}

\* C34: reconnection is live.  While stop() is never called, a supervisor
\* that has failed and sleeps in BACKOFF is eventually CONNECTING again,
\* after the first failure as after MaxFailures of them in a row.
C34_FailureLeadsToReconnect ==
    \A d \in Devices :
        (sup_state[d] = "BACKOFF") ~> (sup_state[d] = "CONNECTING" \/ _stopped)

\* a supervisor connects again after the last of MaxFailures failures in a
\* row, having slept for the ceiling
C34_Witness ==
    /\ ~_stopped
    /\ \E d \in Devices :
          /\ sup_state[d] = "CONNECTING"
          /\ came_from[d] = "BACKOFF"
          /\ fails[d] = MaxFailures
          /\ waited[d] = max_backoff

-----------------------------------------------------------------------------
(* The supervisors with their blocks and the shutdown, checked under       *)
(* SpecStream and SpecStreamFair                                           *)

\* C13: a supervisor task ends only on a stop signal: whatever transport
\* failures, malformed blocks and handler failures occur, it is not closing
\* or stopped while stop() has not been called.
C13_OnlyStopEndsASupervisor ==
    \A d \in Devices : sup_state[d] \in {"CLOSING", "STOPPED"} => _stopped

\* a supervisor that has failed and reconnected is still streaming after a
\* handler failure
C13_Witness ==
    /\ ~_stopped
    /\ outcome.result = "raised"
    /\ \E d \in Devices :
          fails[d] >= 1 /\ sup_state[d] = "STREAMING" /\ came_from[d] = "CONNECTING"

\* C14: once stop() has been called a supervisor only moves towards
\* STOPPED, from whichever state it is in: it opens no connection, delivers
\* nothing to the engine, does not sit out its sleep, and it does reach
\* STOPPED.
C14_StopIsObservedEverywhere ==
    /\ [][_stopped =>
            /\ \A d \in Devices :
                  sup_state'[d] # sup_state[d] =>
                      sup_state'[d] \in {"CLOSING", "STOPPED"}
            /\ UNCHANGED <<engine_vars, backoff, waited>>
            /\ \A d \in Devices :
                  handling'[d] = "awaiting" => handling[d] = "awaiting"]_vars
    /\ (_stopped ~> \A d \in Devices : sup_state[d] = "STOPPED")

\* stopped out of a sleep on one side, out of a stream on the other
C14_Witness ==
    /\ _stopped
    /\ \E d \in Devices :
          sup_state[d] = "STOPPED" /\ came_from[d] = "BACKOFF" /\ waited[d] >= 1
    /\ \E d \in Devices :
          sup_state[d] = "STOPPED" /\ came_from[d] \in {"STREAMING", "CLOSING"}

\* C15: when lifespan has exited, every supervisor task and both background
\* tasks have terminated.
C15_ShutdownWaitsForEveryTask ==
    lifespan = "exited" =>
        /\ \A t \in BackgroundTasks : background[t] = "done"
        /\ \A d \in Devices : sup_state[d] = "STOPPED"

\* C16: while one supervisor fails, sleeps or reconnects, the other one's
\* steps stay enabled, and a supervisor entering or leaving BACKOFF changes
\* neither the state nor the backoff of the other.
C16_SupervisorsAreIndependent ==
    /\ [](\A d \in Devices : \A e \in Devices \ {d} :
            (~_stopped /\ sup_state[e] \in {"BACKOFF", "CONNECTING"}) =>
                /\ sup_state[d] = "CONNECTING" => ENABLED ConnectOk(d)
                /\ sup_state[d] = "BACKOFF" => ENABLED Wake(d)
                /\ (sup_state[d] = "STREAMING" /\ handling[d] = "none") =>
                      \A fields \in SampleBlocks :
                          ENABLED (\/ DropBlock(d, fields)
                                   \/ DeliverTotals(d, fields)
                                   \/ DeliverInside(d, fields))
                /\ (sup_state[d] = "STREAMING" /\ handling[d] = "awaiting") =>
                      ENABLED HandlerReturns(d))
    /\ [][\A d \in Devices : \A e \in Devices \ {d} :
            (sup_state'[e] # sup_state[e]
                /\ "BACKOFF" \in {sup_state[e], sup_state'[e]}) =>
                    /\ sup_state'[d] = sup_state[d]
                    /\ backoff'[d] = backoff[d]
                    /\ handling'[d] = handling[d]]_vars

\* one supervisor sleeps while the other awaits the handler of a block
C16_Witness ==
    \E d \in Devices : \E e \in Devices \ {d} :
        /\ sup_state[e] = "BACKOFF"
        /\ sup_state[d] = "STREAMING"
        /\ handling[d] = "awaiting"

\* C17: a malformed block is dropped: receiving it leaves the engine, the
\* supervisor's state and backoff as they were and awaits no handler.
C17_MalformedBlockIsDropped ==
    [][\A d \in Devices : \A fields \in SampleBlocks :
            (/\ Malformed(fields)
             /\ \/ DropBlock(d, fields)
                \/ DeliverTotals(d, fields)
                \/ DeliverInside(d, fields)) =>
                /\ UNCHANGED <<engine_vars, sup_state, backoff, handling>>
                /\ sup_state[d] = "STREAMING"]_vars

\* a block with a non-numeric value has just been dropped
C17_Witness ==
    /\ outcome.malformed
    /\ outcome.result = "except"
    /\ \E d \in Devices : sup_state[d] = "STREAMING"

-----------------------------------------------------------------------------
(* The engine under a failing sink, checked under SpecSink *)

\* C18: when the sink fails during a call, the engine's memory keeps what
\* the call wrote: the stored totals are the snapshot's after a failed
\* handle_raw_totals, and the offset keeps the correction (the total is the
\* target) after a failed set_occupancy.
C18_FailedWriteKeepsMemory ==
    /\ (result.op = "handle_raw_totals" /\ result.raised) =>
          StoredTotals(result.api_channel)
              = <<result.entered_total, result.exited_total>>
    /\ (result.op = "set_occupancy" /\ (result.raised \/ result.swallowed)) =>
          Total = result.target_occupancy

\* a snapshot that raised its channel's entered total from 0 and whose rows
\* the sink lost
C18_Witness ==
    /\ result.op = "handle_raw_totals"
    /\ result.raised
    /\ result.persisted = 0
    /\ result.entered_total = 1
    /\ channels[result.api_channel].last_entered = 1

\* C19: a failure of the sink while the audit row of set_occupancy or
\* reset_occupancy is written does not reach the caller.
C19_AuditFailureStaysInside ==
    result.op = "set_occupancy" => ~result.raised

-----------------------------------------------------------------------------
(* Properties of one connection, checked under SpecWire *)

\* the stream has been consumed to its end
Consumed == unread = <<>> /\ parts = <<>> /\ consuming = None

\* C21: the blocks of one connection reach the handlers in the order in
\* which they arrived: every handler call ends before the next one starts,
\* and each call is for a block that starts later in the stream than the
\* block of the call before it, so no block is handled twice or out of order.
C21_BlocksAreHandledInArrivalOrder ==
    \A i \in DOMAIN calls :
        /\ (i % 2 = 1) => calls[i].ev = "start"
        /\ (i % 2 = 0) => (calls[i].ev = "end" /\ calls[i].at = calls[i - 1].at)
        /\ (i > 2 /\ i % 2 = 1) => calls[i].at > calls[i - 2].at

\* two blocks that arrived in one chunk have both been handled
C21_Witness ==
    /\ delivery.chunks = 1
    /\ Len(calls) = 4
    /\ calls[4].ev = "end"
    /\ calls[3].at > calls[1].at

\* people_subscriber.py 191-194: the bodies yielded for the parts before the
\* last one
RECURSIVE BodiesOf(_)
BodiesOf(pieces) ==
    IF Len(pieces) <= 1 THEN <<>>
    ELSE LET body == _extract_body(Head(pieces))
         IN  (IF body = <<>> THEN <<>> ELSE <<body>>) \o BodiesOf(Tail(pieces))

\* what the reader yields when the whole response arrives as one chunk
SingleChunk ==
    IF boundary # <<>> /\ find(stream, boundary) # 0
    THEN BodiesOf(split(stream, boundary))
    ELSE <<>>

\* C23: however the stream is cut into chunks, one byte at a time and inside
\* a boundary token included, the reader yields the bodies it yields for the
\* stream delivered as a single chunk: at every moment a prefix of them, and
\* all of them once the stream is consumed.
C23_YieldIsIndependentOfChunking ==
    /\ Len(yielded) <= Len(SingleChunk)
    /\ yielded = SubSeq(SingleChunk, 1, Len(yielded))
    /\ Consumed => yielded = SingleChunk

\* a stream that arrived in several chunks, one of them ending inside a
\* boundary token, has been consumed and has yielded two bodies
C23_Witness ==
    /\ Consumed
    /\ delivery.chunks >= 2
    /\ delivery.torn
    /\ Len(yielded) = 2

\* the reader knows the boundary and the stream is made of complete blocks
\* with the boundary token between them
WellFramed ==
    /\ delivery.known
    /\ delivery.framing \in {"separated", "preceded", "closed"}

\* C24: once a stream of N blocks separated by the known boundary token has
\* been consumed, the reader has yielded N bodies (N at least 2).
C24_EveryBlockIsYielded ==
    (Consumed /\ WellFramed /\ Len(delivery.bodies) >= 2)
        => Len(yielded) = Len(delivery.bodies)

-----------------------------------------------------------------------------
(* Properties of fetch_camera_summary, checked under SpecFetch *)

\* the request was answered with entered and exited fields that convert
Usable(request) ==
    /\ ~request.failed
    /\ _extract_from_fields(request.fields) # None

\* C25: fetch_camera_summary issues the request with the rule name first
\* and the one without it second, the second only after a first that gave
\* no usable fields, and never a third; it returns the values of the first
\* usable reply alone, and None when neither reply is usable.
C25_FilteredFirstThenUnfilteredOnce ==
    /\ Len(requests) <= 2
    /\ \A i \in DOMAIN requests :
        /\ ("name" \in DOMAIN requests[i].params) <=> (i = 1)
        /\ i > 1 => ~Usable(requests[i - 1])
    /\ fetched = None =>
        /\ Len(requests) = 2
        /\ \A i \in DOMAIN requests : ~Usable(requests[i])
    /\ fetched \notin {None, Pending} =>
        /\ Usable(requests[Len(requests)])
        /\ fetched = _extract_from_fields(requests[Len(requests)].fields)
    /\ (requests # <<>> /\ Usable(requests[Len(requests)])) => fetched # Pending

\* the first reply carried an entered total only, the second was usable and
\* its values were returned
C25_Witness ==
    /\ Len(requests) = 2
    /\ ~requests[1].failed
    /\ get(requests[1].fields, "summary.EnteredSubtotal.Today") = "1"
    /\ get(requests[2].fields, "summary.EnteredSubtotal.Today") = "None"
    /\ fetched = [entered |-> 0, exited |-> 1]

-----------------------------------------------------------------------------
(* Properties of the camera configuration, checked under SpecConfig *)

\* the row holds a value: not None, not an empty or blank text, not port 0
Present(k) ==
    /\ k \in DOMAIN store
    /\ store[k] # None
    /\ ~Blank(store[k].str)
    /\ ~(k \in PortKeys /\ store[k] = Str("0"))

\* the persisted value as a setting: a port is a number
Persisted(k) ==
    IF k \in PortKeys /\ Converts(store[k].str)
    THEN Num(int[store[k].str])
    ELSE store[k]

StaticDefault(k) ==
    IF k \in PortKeys THEN Num(env[k]) ELSE Str(env[k])

-----------------------------------------------------------------------------
(* Properties of one text on the two paths, checked under SpecBlock *)

\* the dictionary of the text, and the values the claims speak of
FieldsOf(txt) == _parse_key_value_block(strip(txt))

Numeric(fields, key) == get(fields, key) \in {"0", "1"}

Delivered(did) == did.do \in {"totals", "inside"}

\* C32: the loop body of the stream reader does one thing with a block.  A
\* Heartbeat body delivers nothing; a NumberStat block with numeric entered
\* and exited fields delivers one counter snapshot with these numbers; a
\* ManNumDetection block with a numeric inside field delivers one gauge
\* snapshot; a block with any other rule name, or with none, delivers
\* nothing.  Whatever is delivered carries the source's logical channel,
\* never its attach channel.
C32_BlockIsClassifiedOnce ==
    read.stream # Pending =>
        LET fields == FieldsOf(payload)
            rule_name == get(fields, "summary.RuleName")
            did == read.stream
        IN  /\ strip(payload) = <<"Heartbeat">> => ~Delivered(did)
            /\ (/\ rule_name = "NumberStat"
                /\ Numeric(fields, "summary.EnteredSubtotal.Today")
                /\ Numeric(fields, "summary.ExitedSubtotal.Today"))
               => /\ did.do = "totals"
                  /\ ToString(did.entered) = get(fields, "summary.EnteredSubtotal.Today")
                  /\ ToString(did.exited) = get(fields, "summary.ExitedSubtotal.Today")
            /\ (/\ rule_name = "ManNumDetection"
                /\ Numeric(fields, "summary.InsideSubtotal.Total"))
               => /\ did.do = "inside"
                  /\ ToString(did.inside) = get(fields, "summary.InsideSubtotal.Total")
            /\ rule_name \notin {"NumberStat", "ManNumDetection"} => ~Delivered(did)
            /\ Delivered(did) =>
                  /\ did.api_channel = source.logical_channel
                  /\ did.api_channel # source.attach_channel

\* a NumberStat block of three lines has been delivered for D6 as a counter
\* snapshot on channel 5
C32_Witness ==
    /\ read.stream # Pending
    /\ read.stream.do = "totals"
    /\ source.name = "D6"
    /\ read.stream.api_channel = camera_d6_channel
    /\ read.stream.entered = 1
    /\ get(FieldsOf(payload), "summary.RuleName") = "NumberStat"
    /\ last.op = "handle_raw_totals"
    /\ last.api_channel = camera_d6_channel
    /\ ~last.ignored

\* C36: both paths fall back to the Total fields when the Today fields are
\* absent: a NumberStat text that carries summary.EnteredSubtotal.Total and
\* summary.ExitedSubtotal.Total and no Today field yields the same counter
\* snapshot as a block of the stream and as a reply to getSummary.
C36_TotalFallbackOnBothPaths ==
    LET fields == FieldsOf(payload)
    IN  (/\ read.stream # Pending
         /\ read.poll # Pending
         /\ get(fields, "summary.RuleName") = "NumberStat"
         /\ get(fields, "summary.EnteredSubtotal.Today") = "None"
         /\ get(fields, "summary.ExitedSubtotal.Today") = "None"
         /\ Numeric(fields, "summary.EnteredSubtotal.Total")
         /\ Numeric(fields, "summary.ExitedSubtotal.Total"))
        => /\ read.poll.do = "totals"
           /\ read.stream = read.poll

\* of the lines of a text, those that hold a pair: not blank, with a "=" in
\* them
PairLines(lines) ==
    {i \in DOMAIN lines : find(strip(lines[i]), <<"=">>) # 0}

\* the trimmed text before the first "=" of line i, and the trimmed text
\* after it
KeyAt(lines, i) ==
    LET line == strip(lines[i])
    IN  Concat(strip(SubSeq(line, 1, find(line, <<"=">>) - 1)))

ValueAt(lines, i) ==
    LET line == strip(lines[i])
    IN  Concat(strip(SubSeq(line, find(line, <<"=">>) + 1, Len(line))))

\* the mapping has the keys of the pair lines of the text, each with the
\* value of the last line that has that key
LastPairWins(mapping, txt) ==
    LET lines == splitlines(txt)
        pairs == PairLines(lines)
        key_of == [i \in pairs |-> KeyAt(lines, i)]
    IN  /\ DOMAIN mapping = {key_of[i] : i \in pairs}
        /\ \A i \in pairs :
              (\A j \in pairs : key_of[j] = key_of[i] => j <= i)
                  => mapping[key_of[i]] = ValueAt(lines, i)

\* C37: _parse_key_value_block and _parse_key_value return a mapping for
\* every text: the text is split into lines, blank lines and lines without
\* "=" are skipped, every other line is split at its first "=" and key and
\* value are trimmed; of several lines with one key the last one's value is
\* kept.
C37_ParseKeepsLastPairOfEachKey ==
    /\ read.stream # Pending /\ strip(payload) # <<"Heartbeat">> /\ payload # <<>>
           => LastPairWins(_parse_key_value_block(strip(payload)), strip(payload))
    /\ read.poll # Pending
           => LastPairWins(_parse_key_value(payload), payload)

\* a reply has been parsed in which a key occurs on two lines with two
\* values, the later one with a second "=" in it, next to a line without "="
C37_Witness ==
    /\ read.poll # Pending
    /\ read.stream # Pending
    /\ Len(splitlines(payload)) = 3
    /\ LET lines == splitlines(payload)
       IN  /\ Cardinality(PairLines(lines)) = 2
           /\ \E i \in PairLines(lines), j \in PairLines(lines) :
                 /\ i < j
                 /\ KeyAt(lines, i) = KeyAt(lines, j)
                 /\ ValueAt(lines, i) = "0"
                 /\ ValueAt(lines, j) = "0=1"
                 /\ _parse_key_value(payload)[KeyAt(lines, j)] = "0=1"

-----------------------------------------------------------------------------
(* Properties of camera_sync_loop, checked under SpecCycle *)

\* C35: in every pass of camera_sync_loop that has loaded its settings, D6
\* is polled and its usable summary applied whatever became of D4 in that
\* pass: neither an unanswered request to D4 nor a persistence failure
\* while D4's summary is applied keeps D6 from being polled and applied.
C35_D6IsPolledWhateverBecomesOfD4 ==
    (cycle.at = "sleep" /\ cycle.failed \in {"none", "D4"}) =>
        /\ "D6" \in cycle.polled
        /\ "D6" \in cycle.usable => "D6" \in cycle.applied

-----------------------------------------------------------------------------
(* Properties of the admin routes, checked under SpecAdmin *)

\* the persisted row of a key, None when there is none
RowOf(table, key) == dict_get(table, key)

\* C38: changing the admin password leaves every other persisted setting
\* as it was: the rows of the camera settings are the same before and after
\* change_admin_password.
C38_PasswordChangeKeepsCameraSettings ==
    saved.op = "change_admin_password" =>
        \A key \in SETTINGS_KEYS \ {"admin_password"} :
            /\ key \in DOMAIN store <=> key \in DOMAIN saved.before
            /\ RowOf(store, key) = RowOf(saved.before, key)

\* C39: saving the camera settings leaves the persisted admin password as
\* it was: the effective admin password is the same before and after
\* put_admin_settings.
C39_SettingsSaveKeepsAdminPassword ==
    saved.op = "put_admin_settings" =>
        /\ RowOf(store, "admin_password") = RowOf(saved.before, "admin_password")
        /\ get_effective_admin_password(load_admin_settings(store), env)
             = get_effective_admin_password(load_admin_settings(saved.before), env)

====
